---- MODULE Spec2Model ----
(***************************************************************************)
(* Gamification and progress engine of the todo tracker: scoring, streaks, *)
(* levels, achievements and goals, over the four record families of the    *)
(* DuckDB store (user_stats, daily_activity, achievements, goals) and the  *)
(* todos table.  The store runs every statement in autocommit mode: the    *)
(* code opens no transaction, so each write is durable when it returns.    *)
(*                                                                         *)
(* Dates are day numbers: day 1 is Monday 2024-01-01, so days 1..31 are    *)
(* the days of January 2024.  NoDate stands for Python's None.             *)
(***************************************************************************)
EXTENDS Integers, Sequences, FiniteSets, TLC

\* ------------------------------------------------------------------ bounds
MaxDay == 8
MaxTodos == 2
MaxCompletions == 2
MaxStreak == 3
MaxPenaltyRuns == 1
MaxGoals == 2
MaxPoints == 300
MaxScored == 4
MaxTarget == 4
MaxHistory == 5
MaxSkipped == 1
PriorCompletions == 97

\* ------------------------------------------------------- program constants
NoDate == 0
DefaultDailyGoal == 3
MaxPenaltyPerTask == 5
LookbackDays == 365
DaysInWeek == 7
DaysInJanuary == 31
FourWeeks == 28
NinetyDays == 90
MaxSuggestions == 3
WeeklyStreakMax == 7
DefaultWeeklyPoints == 50
PointsPerTask == 10

FirstDay == MaxDay - 2
Days == FirstDay..MaxDay

Max(a, b) == IF a >= b THEN a ELSE b
Min(a, b) == IF a <= b THEN a ELSE b

\* ScoringService.__init__: base point values by task size
base_points == [small |-> 1, medium |-> 3, large |-> 5]

\* ScoringService.__init__: streak multipliers.  Each entry holds the
\* threshold, the multiplier's excess over 1.0 in hundredths, and the sign of
\* the binary rounding error of the double (mult - 1.0) that Python computes:
\* 1.1-1.0 = 0.10000000000000009 (+), 1.4-1.0 = 0.3999999999999999 (-),
\* 1.6-1.0 = 0.6000000000000001 (+); 0.25, 0.8 and 1.0 are as written (0.8
\* rounds to the double nearest 0.8, whose products with 1, 3, 5 truncate as
\* the exact ones do).
streak_multipliers ==
    << [threshold |-> 100, excess |-> 100, err |-> 0],
       [threshold |-> 60,  excess |-> 80,  err |-> 0],
       [threshold |-> 30,  excess |-> 60,  err |-> 1],
       [threshold |-> 14,  excess |-> 40,  err |-> -1],
       [threshold |-> 7,   excess |-> 25,  err |-> 0],
       [threshold |-> 3,   excess |-> 10,  err |-> 1] >>

\* ScoringService.__init__: level thresholds
level_thresholds ==
    << 0, 100, 250, 500, 1000, 1750, 2750, 4000, 5500, 7500, 10000, 13000,
       16500, 20500, 25000, 30000, 35500, 41500, 48000, 55000, 62500, 70500,
       79000, 88000, 97500, 107500, 118000, 129000, 140500, 152500, 165000 >>

\* The categories that earn the category bonus
BonusCategories == {"Work", "Finance", "Health"}

\* ---------------------------------------------------------- pure functions

\* _get_streak_multiplier: the first entry, thresholds descending, that the
\* streak reaches; 0 when none (multiplier 1.0).
RECURSIVE StreakEntry(_, _)
StreakEntry(streak_days, i) ==
    IF i > Len(streak_multipliers) THEN 0
    ELSE IF streak_days >= streak_multipliers[i].threshold THEN i
    ELSE StreakEntry(streak_days, i + 1)

_get_streak_multiplier(streak_days) == StreakEntry(streak_days, 1)

\* int(base_points * (streak_multiplier - 1.0)) in double arithmetic: the
\* exact product truncated, one less when the product of the nominal value is
\* a whole number and the double lies below it.
StreakBonus(base, streak_days) ==
    LET i == _get_streak_multiplier(streak_days) IN
    IF i = 0 THEN 0
    ELSE LET m == streak_multipliers[i]
             exact == base * m.excess
         IN IF exact % 100 = 0 /\ m.err < 0 THEN (exact \div 100) - 1
            ELSE exact \div 100

\* int(base_points * 0.5)
DailyGoalBonus(base) == base \div 2

\* The scan with a threshold counted only when total_points exceeds it
RECURSIVE LevelScanStrict(_, _, _)
LevelScanStrict(total_points, level, current_level) ==
    IF level > Len(level_thresholds) THEN current_level
    ELSE IF total_points > level_thresholds[level]
         THEN LevelScanStrict(total_points, level + 1, level)
         ELSE current_level

\* calculate_level: scan the thresholds in ascending order, stop at the first
\* one above total_points.
RECURSIVE LevelScan(_, _, _)
LevelScan(total_points, level, current_level) ==
    IF level > Len(level_thresholds) THEN current_level
    ELSE IF total_points >= level_thresholds[level]
         THEN LevelScan(total_points, level + 1, level)
         ELSE current_level

calculate_level(total_points) ==
    LET current_level == LevelScan(total_points, 1, 1) IN
    [ level |-> current_level,
      points_to_next |->
          IF current_level < Len(level_thresholds)
          THEN level_thresholds[current_level + 1] - total_points
          ELSE 0,
      points_for_current |->
          IF total_points >= level_thresholds[1]
          THEN level_thresholds[current_level] ELSE 0 ]

\* AchievementService.__init__: the achievement catalog, in code order
extended_achievement_definitions ==
    <<
       [name |-> "First Steps", requirement_type |-> "tasks_completed", requirement_value |-> 1, bonus_points |-> 10],
       [name |-> "Getting Started", requirement_type |-> "tasks_completed", requirement_value |-> 10, bonus_points |-> 25],
       [name |-> "Productive", requirement_type |-> "tasks_completed", requirement_value |-> 50, bonus_points |-> 50],
       [name |-> "Century Club", requirement_type |-> "tasks_completed", requirement_value |-> 100, bonus_points |-> 100],
       [name |-> "Task Master", requirement_type |-> "tasks_completed", requirement_value |-> 500, bonus_points |-> 250],
       [name |-> "Day One", requirement_type |-> "streak_days", requirement_value |-> 1, bonus_points |-> 5],
       [name |-> "Week Warrior", requirement_type |-> "streak_days", requirement_value |-> 7, bonus_points |-> 35],
       [name |-> "Month Champion", requirement_type |-> "streak_days", requirement_value |-> 30, bonus_points |-> 150],
       [name |-> "Point Collector", requirement_type |-> "points_earned", requirement_value |-> 1000, bonus_points |-> 100],
       [name |-> "Point Master", requirement_type |-> "points_earned", requirement_value |-> 5000, bonus_points |-> 500],
       [name |-> "Legendary", requirement_type |-> "tasks_completed", requirement_value |-> 1000, bonus_points |-> 500],
       [name |-> "Unstoppable", requirement_type |-> "tasks_completed", requirement_value |-> 2500, bonus_points |-> 1000],
       [name |-> "Consistency", requirement_type |-> "streak_days", requirement_value |-> 3, bonus_points |-> 15],
       [name |-> "Fortnight Force", requirement_type |-> "streak_days", requirement_value |-> 14, bonus_points |-> 70],
       [name |-> "Streak Master", requirement_type |-> "streak_days", requirement_value |-> 60, bonus_points |-> 300],
       [name |-> "Century Streak", requirement_type |-> "streak_days", requirement_value |-> 100, bonus_points |-> 500],
       [name |-> "Point Hunter", requirement_type |-> "points_earned", requirement_value |-> 500, bonus_points |-> 50],
       [name |-> "Point Hoarder", requirement_type |-> "points_earned", requirement_value |-> 2500, bonus_points |-> 250],
       [name |-> "Point Millionaire", requirement_type |-> "points_earned", requirement_value |-> 10000, bonus_points |-> 1000],
       [name |-> "Goal Getter", requirement_type |-> "daily_goals_met", requirement_value |-> 1, bonus_points |-> 20],
       [name |-> "Consistent Achiever", requirement_type |-> "daily_goals_met", requirement_value |-> 7, bonus_points |-> 50],
       [name |-> "Goal Crusher", requirement_type |-> "daily_goals_met", requirement_value |-> 30, bonus_points |-> 150],
       [name |-> "Goal Master", requirement_type |-> "daily_goals_met", requirement_value |-> 100, bonus_points |-> 500],
       [name |-> "Level Up", requirement_type |-> "level_reached", requirement_value |-> 5, bonus_points |-> 50],
       [name |-> "High Achiever", requirement_type |-> "level_reached", requirement_value |-> 10, bonus_points |-> 100],
       [name |-> "Elite Status", requirement_type |-> "level_reached", requirement_value |-> 20, bonus_points |-> 250],
       [name |-> "Night Owl", requirement_type |-> "special_late_completion", requirement_value |-> 1, bonus_points |-> 15],
       [name |-> "Early Bird", requirement_type |-> "special_early_completion", requirement_value |-> 1, bonus_points |-> 15],
       [name |-> "Weekend Warrior", requirement_type |-> "weekend_completions", requirement_value |-> 10, bonus_points |-> 50]
    >>

AchievementNames ==
    { extended_achievement_definitions[i].name :
          i \in DOMAIN extended_achievement_definitions }

\* The rows the schema seeds in the achievements table: the catalog's first
\* ten entries ("basic achievements that match schema.sql").
NumSeeded == 10
SeededNames ==
    { extended_achievement_definitions[i].name : i \in 1..NumSeeded }

\* ------------------------------------------------------------------- state
VARIABLES
    today,          \* date.today() / CURRENT_DATE
    user_stats,     \* table user_stats: a sequence of rows
    daily_activity, \* table daily_activity, keyed by activity_date
    achievements,   \* table achievements: name -> "absent" | "locked" | "unlocked"
    todos,          \* table todos: id -> row
    goals,          \* table goals: a set of rows
    next_goal_id,   \* sequence goals_id_seq
    penalty_runs,   \* how many times apply_overdue_penalties has run
    last,           \* the last call: its arguments, what it read, its outcome
    calls           \* apply_completion_scoring invocations in progress

vars == << today, user_stats, daily_activity, achievements, todos, goals,
           next_goal_id, penalty_runs, last, calls >>

TodoIds == 1..MaxTodos

\* _initialize_user_stats: the default row
default_stats ==
    [ total_points |-> 0, level |-> 1, points_to_next_level |-> 100,
      total_tasks_completed |-> 0, current_streak_days |-> 0,
      longest_streak_days |-> 0, last_completion_date |-> NoDate,
      daily_goal |-> DefaultDailyGoal, achievements_unlocked |-> 0 ]

NoRow == [present |-> FALSE]

\* A daily_activity row as create_activity inserts it
ActivityRow(tasks_completed, total_points_earned, daily_goal_met) ==
    [ present |-> TRUE, tasks_completed |-> tasks_completed,
      total_points_earned |-> total_points_earned,
      daily_goal_met |-> daily_goal_met, overdue_penalty_applied |-> 0 ]

\* A todos row as create_todo inserts it
NewTodo ==
    [ present |-> TRUE, status |-> "pending", final_size |-> "medium",
      due_date |-> NoDate, completed_at |-> NoDate, base_points |-> 0,
      bonus_points |-> 0, total_points_earned |-> 0 ]

\* UserStatsRepository.get_current_stats: SELECT * FROM user_stats LIMIT 1
HasStats(us) == us # << >>
get_current_stats(us) == us[1]

\* UserStatsRepository.update_stats: UPDATE user_stats SET ... (every row)
update_stats(us, updates) ==
    [ i \in DOMAIN us |-> updates @@ us[i] ]

\* _initialize_user_stats: INSERT the default row
_initialize_user_stats(us) == Append(us, default_stats)

\* The insert run whether or not the table already holds a row
InsertWithoutLooking(us) == _initialize_user_stats(us)

\* "current_stats = get_current_stats(); if not current_stats: initialize":
\* the table afterwards, and the object the caller holds
EnsureStats(us) == IF HasStats(us) THEN us ELSE _initialize_user_stats(us)
CurrentOrDefault(us) == IF HasStats(us) THEN get_current_stats(us) ELSE default_stats

\* ------------------------------------------------------------ scoring engine

\* calculate_completion_points with a size outside the table scored as small
\* and no category bonus
PointsWithoutDefaults(us, da, todo, now) ==
    LET base == IF todo.final_size \in DOMAIN base_points
                THEN base_points[todo.final_size]
                ELSE base_points["small"]
        current_stats == CurrentOrDefault(us)
        streak_bonus == StreakBonus(base, current_stats.current_streak_days)
        today_activity == da[now]
        tasks_completed_today ==
            IF today_activity.present THEN today_activity.tasks_completed ELSE 0
        daily_bonus ==
            IF /\ tasks_completed_today + 1 >= current_stats.daily_goal
               /\ (~today_activity.present \/ ~today_activity.daily_goal_met)
            THEN DailyGoalBonus(base) ELSE 0
        recovery_bonus ==
            IF todo.due_date # NoDate /\ todo.due_date < now THEN 1 ELSE 0
        bonus == streak_bonus + daily_bonus + recovery_bonus
    IN [ base_points |-> base, bonus_points |-> bonus,
         total_points |-> base + bonus ]

\* calculate_completion_points: (base, bonus, total) for completing `todo`
\* when the clock shows `now`.  It reads the stats (the default object when
\* the table is empty) and today's activity row.
calculate_completion_points(us, da, todo, now) ==
    LET base == IF todo.final_size \in DOMAIN base_points
                THEN base_points[todo.final_size]
                ELSE base_points["medium"]
        current_stats == CurrentOrDefault(us)
        streak_bonus == StreakBonus(base, current_stats.current_streak_days)
        today_activity == da[now]
        tasks_completed_today ==
            IF today_activity.present THEN today_activity.tasks_completed ELSE 0
        daily_bonus ==
            IF /\ tasks_completed_today + 1 >= current_stats.daily_goal
               /\ (~today_activity.present \/ ~today_activity.daily_goal_met)
            THEN DailyGoalBonus(base) ELSE 0
        category_bonus == IF todo.category \in BonusCategories THEN 1 ELSE 0
        recovery_bonus ==
            IF todo.due_date # NoDate /\ todo.due_date < now THEN 1 ELSE 0
        bonus == streak_bonus + daily_bonus + category_bonus + recovery_bonus
    IN [ base_points |-> base, bonus_points |-> bonus,
         total_points |-> base + bonus ]

\* NewStreak with the next-day branch maintaining the streak instead of
\* extending it
NewStreakNoExtend(current_stats, completion_date) ==
    LET last_completion == current_stats.last_completion_date IN
    IF last_completion = NoDate THEN 1
    ELSE IF completion_date - last_completion <= 1
         THEN current_stats.current_streak_days
    ELSE 1

\* NewStreak without the "within streak window" branch: a completion dated
\* before the last one falls through to the reset
NewStreakResetsBackdated(current_stats, completion_date) ==
    LET last_completion == current_stats.last_completion_date IN
    IF last_completion = NoDate THEN 1
    ELSE IF completion_date = last_completion
         THEN current_stats.current_streak_days
    ELSE IF completion_date = last_completion + 1
         THEN current_stats.current_streak_days + 1
    ELSE 1

\* update_streak, the branch chain: the new streak for a completion on
\* completion_date, given the stats object read
NewStreak(current_stats, completion_date) ==
    LET last_completion == current_stats.last_completion_date IN
    IF last_completion = NoDate THEN 1
    ELSE IF completion_date = last_completion
         THEN current_stats.current_streak_days
    ELSE IF completion_date = last_completion + 1
         THEN current_stats.current_streak_days + 1
    ELSE IF completion_date - last_completion <= 1
         THEN current_stats.current_streak_days
    ELSE 1

\* update_streak writing the longest streak it read, never raising it
update_streak_keeps_longest(us, completion_date) ==
    LET current_stats == CurrentOrDefault(us)
        new_streak == NewStreak(current_stats, completion_date)
    IN update_stats(EnsureStats(us),
           [ current_streak_days |-> new_streak,
             longest_streak_days |-> current_stats.longest_streak_days,
             last_completion_date |-> completion_date ])

\* update_streak writing the new streak as the longest one, without max()
update_streak_overwrites_longest(us, completion_date) ==
    LET current_stats == CurrentOrDefault(us)
        new_streak == NewStreak(current_stats, completion_date)
    IN update_stats(EnsureStats(us),
           [ current_streak_days |-> new_streak,
             longest_streak_days |-> new_streak,
             last_completion_date |-> completion_date ])

\* update_streak: the user_stats table after the call
update_streak(us, completion_date) ==
    LET current_stats == CurrentOrDefault(us)
        new_streak == NewStreak(current_stats, completion_date)
    IN update_stats(EnsureStats(us),
           [ current_streak_days |-> new_streak,
             longest_streak_days |->
                 Max(current_stats.longest_streak_days, new_streak),
             last_completion_date |-> completion_date ])

\* _update_daily_activity storing the points of the last completion instead of
\* adding them to the day's total
UpdateActivityOverwritesPoints(us, da, activity_date, points_earned) ==
    LET current_activity == da[activity_date]
        daily_goal == IF HasStats(us) THEN get_current_stats(us).daily_goal
                      ELSE DefaultDailyGoal
    IN IF current_activity.present
       THEN LET new_tasks == current_activity.tasks_completed + 1 IN
            [ da EXCEPT ![activity_date] =
                [ tasks_completed |-> new_tasks,
                  total_points_earned |-> points_earned,
                  daily_goal_met |-> new_tasks >= daily_goal ]
                @@ current_activity ]
       ELSE [ da EXCEPT ![activity_date] =
                ActivityRow(1, points_earned, daily_goal <= 1) ]

\* _update_daily_activity: the daily_activity table after the upsert
_update_daily_activity(us, da, activity_date, points_earned) ==
    LET current_activity == da[activity_date]
        daily_goal == IF HasStats(us) THEN get_current_stats(us).daily_goal
                      ELSE DefaultDailyGoal
    IN IF current_activity.present
       THEN LET new_tasks == current_activity.tasks_completed + 1 IN
            [ da EXCEPT ![activity_date] =
                [ tasks_completed |-> new_tasks,
                  total_points_earned |->
                      current_activity.total_points_earned + points_earned,
                  daily_goal_met |-> new_tasks >= daily_goal ]
                @@ current_activity ]
       ELSE [ da EXCEPT ![activity_date] =
                ActivityRow(1, points_earned, daily_goal <= 1) ]

\* _check_daily_goal_met finding no row for the date
GoalMetNeverFound(da, activity_date) == FALSE

\* _check_daily_goal_met
_check_daily_goal_met(da, activity_date) ==
    IF da[activity_date].present THEN da[activity_date].daily_goal_met
    ELSE FALSE

\* apply_completion_scoring, statement by statement: the tables after each of
\* its writes and the dictionary it returns.
\*   us_init     after calculate_completion_points (lazy insert of the row)
\*   us_streak   after update_streak's write
\*   us_points   after the points/level write
\*   da_done     after _update_daily_activity
apply_completion_scoring(us, da, todo, completion_date, now) ==
    LET points == calculate_completion_points(us, da, todo, now)
        us_init == EnsureStats(us)
        new_streak == NewStreak(CurrentOrDefault(us_init), completion_date)
        us_streak == update_streak(us_init, completion_date)
        current_stats == get_current_stats(us_streak)
        new_total_points == current_stats.total_points + points.total_points
        new_total_completed == current_stats.total_tasks_completed + 1
        lvl == calculate_level(new_total_points)
        us_points ==
            update_stats(us_streak,
                [ total_points |-> new_total_points,
                  total_tasks_completed |-> new_total_completed,
                  level |-> lvl.level,
                  points_to_next_level |-> lvl.points_to_next,
                  current_streak_days |-> new_streak,
                  last_completion_date |-> completion_date ])
        da_done == _update_daily_activity(us_points, da, completion_date,
                                          points.total_points)
    IN [ us_init |-> us_init, us_streak |-> us_streak,
         us_points |-> us_points, da_done |-> da_done,
         result |->
           [ base_points |-> points.base_points,
             bonus_points |-> points.bonus_points,
             total_points |-> points.total_points,
             new_streak |-> new_streak,
             level_up |-> lvl.level > current_stats.level,
             new_level |-> lvl.level,
             daily_goal_met |-> _check_daily_goal_met(da_done, completion_date) ] ]

\* ApplyOverduePenalties helpers ------------------------------------------

\* TodoRepository.get_overdue_todos: due before today, neither completed nor
\* archived (a NULL due date never compares below today)
get_overdue_todos(td, now) ==
    { id \in TodoIds :
        /\ td[id].present
        /\ td[id].due_date # NoDate
        /\ td[id].due_date < now
        /\ td[id].status \notin {"completed", "archived"} }

\* The loop deducting the penalty without holding the total at 0
RECURSIVE PenaltyLoopUnclamped(_, _, _, _, _, _)
PenaltyLoopUnclamped(ids, td, us, da, total_penalty, now) ==
    IF ids = {} THEN [ us |-> us, da |-> da, total_penalty |-> total_penalty ]
    ELSE LET id == CHOOSE i \in ids :
                       \A j \in ids : td[i].due_date <= td[j].due_date
             penalty == Min(now - td[id].due_date, MaxPenaltyPerTask)
         IN IF HasStats(us)
            THEN PenaltyLoopUnclamped(ids \ {id}, td,
                     update_stats(us,
                         [ total_points |->
                               get_current_stats(us).total_points - penalty ]),
                     da, total_penalty + penalty, now)
            ELSE PenaltyLoopUnclamped(ids \ {id}, td, us, da, total_penalty,
                                      now)

\* apply_overdue_penalties: the loop over the overdue todos, earliest due
\* date first
RECURSIVE PenaltyLoop(_, _, _, _, _, _)
PenaltyLoop(ids, td, us, da, total_penalty, now) ==
    IF ids = {} THEN [ us |-> us, da |-> da, total_penalty |-> total_penalty ]
    ELSE LET id == CHOOSE i \in ids :
                       \A j \in ids : td[i].due_date <= td[j].due_date
             days_overdue == now - td[id].due_date
             penalty == Min(days_overdue, MaxPenaltyPerTask)
         IN IF HasStats(us)
            THEN LET new_total ==
                         Max(0, get_current_stats(us).total_points - penalty)
                     us2 == update_stats(us, [total_points |-> new_total])
                     da2 == IF da[now].present
                            THEN [ da EXCEPT ![now].overdue_penalty_applied =
                                       @ + penalty ]
                            ELSE da
                 IN PenaltyLoop(ids \ {id}, td, us2, da2,
                                total_penalty + penalty, now)
            ELSE PenaltyLoop(ids \ {id}, td, us, da, total_penalty, now)

apply_overdue_penalties(td, us, da, now) ==
    PenaltyLoop(get_overdue_todos(td, now), td, us, da, 0, now)

\* -------------------------------------------------------- achievement engine

\* _count_daily_goals_met: rows of the last 365 days with daily_goal_met
_count_daily_goals_met(da, now) ==
    Cardinality({ d \in Days : /\ da[d].present
                               /\ d >= now - LookbackDays
                               /\ da[d].daily_goal_met })

\* _check_requirement against the snapshot the caller passed
_check_requirement(definition, snapshot, da, now) ==
    LET t == definition.requirement_type
        v == definition.requirement_value
    IN CASE t = "tasks_completed" -> snapshot.total_tasks_completed >= v
         [] t = "streak_days" -> snapshot.current_streak_days >= v
         [] t = "points_earned" -> snapshot.total_points >= v
         [] t = "daily_goals_met" -> _count_daily_goals_met(da, now) >= v
         [] t = "level_reached" -> snapshot.level >= v
         [] OTHER -> FALSE

\* The loop without its "already unlocked" test: no entry is skipped
NeverSkipUnlocked(name, all_achievements) == FALSE

\* "if achievement_name in unlocked_names: continue", unlocked_names being
\* the names of the rows read with is_unlocked set
AlreadyUnlocked(name, all_achievements) == all_achievements[name] = "unlocked"

\* An UPDATE that sets is_unlocked to (id = ?) on every row
UnlockOnlyThis(ach, name) ==
    [ n \in DOMAIN ach |->
        IF n = name THEN "unlocked"
        ELSE IF ach[n] = "unlocked" THEN "locked" ELSE ach[n] ]

\* AchievementRepository.unlock_achievement: UPDATE achievements SET
\* is_unlocked = TRUE WHERE id = ? AND is_unlocked = FALSE
unlock_achievement(ach, name) ==
    IF ach[name] = "locked" THEN [ ach EXCEPT ![name] = "unlocked" ] ELSE ach

\* _award_achievement_bonus: both new values are computed from the snapshot
\* object, which the loop never refreshes
_award_achievement_bonus(us, snapshot, bonus) ==
    update_stats(us,
        [ total_points |-> snapshot.total_points + bonus,
          achievements_unlocked |-> snapshot.achievements_unlocked + 1 ])

\* The loop of check_and_unlock_achievements over the catalog, from entry i.
\* all_achievements is the table as read before the loop.  An entry without a
\* row goes to AchievementRepository.create, a method the repository does not
\* have: the AttributeError is caught and the entry skipped.
RECURSIVE UnlockLoop(_, _, _, _, _, _, _, _)
UnlockLoop(i, snapshot, all_achievements, ach, us, da, now, newly_unlocked) ==
    IF i > Len(extended_achievement_definitions)
    THEN [ ach |-> ach, us |-> us, newly_unlocked |-> newly_unlocked ]
    ELSE
      LET definition == extended_achievement_definitions[i]
          name == definition.name
      IN IF AlreadyUnlocked(name, all_achievements)
         THEN UnlockLoop(i + 1, snapshot, all_achievements, ach, us, da, now,
                         newly_unlocked)
         ELSE IF ~_check_requirement(definition, snapshot, da, now)
         THEN UnlockLoop(i + 1, snapshot, all_achievements, ach, us, da, now,
                         newly_unlocked)
         ELSE IF all_achievements[name] # "absent"
         THEN \* existing row: unlock_achievement, append, award the bonus
              UnlockLoop(i + 1, snapshot, all_achievements,
                  unlock_achievement(ach, name),
                  IF definition.bonus_points > 0
                  THEN _award_achievement_bonus(us, snapshot,
                                                definition.bonus_points)
                  ELSE us,
                  da, now, Append(newly_unlocked, name))
         ELSE \* no row: create raises, "skip silently"
              UnlockLoop(i + 1, snapshot, all_achievements, ach, us, da, now,
                         newly_unlocked)

\* check_and_unlock_achievements(user_stats): `snap` is << >> for None and
\* << row >> for a UserStats object
check_and_unlock_achievements(snap, ach, us, da, now) ==
    IF snap = << >>
    THEN [ ach |-> ach, us |-> us, newly_unlocked |-> << >> ]
    ELSE UnlockLoop(1, snap[1], ach, ach, us, da, now, << >>)

\* The store operations of check_and_unlock_achievements that can raise
AchievementFaultPoints ==
    {"get_all_achievements", "get_recent_activity", "unlock_achievement",
     "update_stats"}

\* The loop with a store operation raising: failing.stmt names the
\* operation, failing.skip how many times it succeeds before it raises.  The
\* loop is left at once, with what was written and appended before.  error
\* tells whether the failing operation was reached.
RECURSIVE UnlockLoopFailing(_, _, _, _, _, _, _, _, _)
UnlockLoopFailing(i, snapshot, all_achievements, ach, us, da, now, newly_unlocked, failing) ==
    IF i > Len(extended_achievement_definitions)
    THEN [ ach |-> ach, us |-> us, newly_unlocked |-> newly_unlocked,
           error |-> FALSE ]
    ELSE
      LET definition == extended_achievement_definitions[i]
          name == definition.name
          fails(stmt) == failing.stmt = stmt /\ failing.skip = 0
          after(stmt) == IF failing.stmt = stmt
                         THEN [ failing EXCEPT !.skip = @ - 1 ]
                         ELSE failing
          stop == [ ach |-> ach, us |-> us,
                    newly_unlocked |-> newly_unlocked, error |-> TRUE ]
      IN IF AlreadyUnlocked(name, all_achievements)
         THEN UnlockLoopFailing(i + 1, snapshot, all_achievements, ach, us,
                                da, now, newly_unlocked, failing)
         ELSE IF definition.requirement_type = "daily_goals_met"
         THEN \* _count_daily_goals_met reads the recent activity
              IF fails("get_recent_activity") THEN stop
              ELSE IF ~_check_requirement(definition, snapshot, da, now)
              THEN UnlockLoopFailing(i + 1, snapshot, all_achievements, ach,
                       us, da, now, newly_unlocked,
                       after("get_recent_activity"))
              ELSE IF all_achievements[name] = "absent"
              THEN UnlockLoopFailing(i + 1, snapshot, all_achievements, ach,
                       us, da, now, newly_unlocked,
                       after("get_recent_activity"))
              ELSE IF fails("unlock_achievement") THEN stop
              ELSE IF definition.bonus_points > 0 /\ fails("update_stats")
              THEN [ ach |-> unlock_achievement(ach, name), us |-> us,
                     newly_unlocked |-> Append(newly_unlocked, name),
                     error |-> TRUE ]
              ELSE UnlockLoopFailing(i + 1, snapshot, all_achievements,
                       unlock_achievement(ach, name),
                       IF definition.bonus_points > 0
                       THEN _award_achievement_bonus(us, snapshot,
                                                     definition.bonus_points)
                       ELSE us,
                       da, now, Append(newly_unlocked, name),
                       IF failing.stmt = "update_stats"
                          /\ definition.bonus_points = 0
                       THEN failing
                       ELSE [ failing EXCEPT !.skip = @ - 1 ])
         ELSE IF ~_check_requirement(definition, snapshot, da, now)
         THEN UnlockLoopFailing(i + 1, snapshot, all_achievements, ach, us,
                                da, now, newly_unlocked, failing)
         ELSE IF all_achievements[name] = "absent"
         THEN UnlockLoopFailing(i + 1, snapshot, all_achievements, ach, us,
                                da, now, newly_unlocked, failing)
         ELSE IF fails("unlock_achievement") THEN stop
         ELSE IF definition.bonus_points > 0 /\ fails("update_stats")
         THEN [ ach |-> unlock_achievement(ach, name), us |-> us,
                newly_unlocked |-> Append(newly_unlocked, name),
                error |-> TRUE ]
         ELSE UnlockLoopFailing(i + 1, snapshot, all_achievements,
                  unlock_achievement(ach, name),
                  IF definition.bonus_points > 0
                  THEN _award_achievement_bonus(us, snapshot,
                                                definition.bonus_points)
                  ELSE us,
                  da, now, Append(newly_unlocked, name),
                  IF failing.stmt = "get_recent_activity"
                     \/ ( failing.stmt = "update_stats"
                          /\ definition.bonus_points = 0 )
                  THEN failing
                  ELSE [ failing EXCEPT !.skip = @ - 1 ])

\* The try statement without its except clause: the error leaves the call
ErrorPropagates(r) ==
    [ ach |-> r.ach, us |-> r.us, newly_unlocked |-> r.newly_unlocked,
      error |-> r.error, raised |-> r.error ]

\* "except Exception: pass", then "return newly_unlocked"
ErrorSwallowed(r) ==
    [ ach |-> r.ach, us |-> r.us, newly_unlocked |-> r.newly_unlocked,
      error |-> r.error, raised |-> FALSE ]

\* check_and_unlock_achievements(user_stats) with one store operation
\* raising: None returns [] before the try statement; get_all_achievements
\* raises before the loop.
check_and_unlock_failing(snap, ach, us, da, now, failing) ==
    IF snap = << >>
    THEN [ ach |-> ach, us |-> us, newly_unlocked |-> << >>,
           error |-> FALSE, raised |-> FALSE ]
    ELSE IF failing.stmt = "get_all_achievements" /\ failing.skip = 0
    THEN ErrorSwallowed([ ach |-> ach, us |-> us, newly_unlocked |-> << >>,
                          error |-> TRUE ])
    ELSE ErrorSwallowed(UnlockLoopFailing(1, snap[1], ach, ach, us, da, now,
                                          << >>, failing))

\* The bonus_points the catalog gives the achievement `name`
BonusOf(name) ==
    LET i == CHOOSE k \in DOMAIN extended_achievement_definitions :
                 extended_achievement_definitions[k].name = name
    IN extended_achievement_definitions[i].bonus_points

RECURSIVE SumBonus(_)
SumBonus(names) ==
    IF names = << >> THEN 0 ELSE BonusOf(Head(names)) + SumBonus(Tail(names))

\* ------------------------------------------------------------------ inputs
\* Todo objects handed to apply_completion_scoring: a small task without
\* category, a large task of category Work; neither has a due date.
SampleTodos ==
    { [ final_size |-> "small", category |-> "None", due_date |-> NoDate ],
      [ final_size |-> "large", category |-> "Work", due_date |-> NoDate ] }
\* update_todo arguments: a due date, a TaskSize value (a size outside the
\* enum cannot be read back: _row_to_model raises on TaskSize(...))
TodoUpdates ==
    { [ due_date |-> FirstDay ], [ final_size |-> "large" ],
      [ final_size |-> "small" ] }

\* ----------------------------------------------------------- initial state

\* The user_stats row and daily_activity table that n completions of small,
\* uncategorised tasks without due date leave, all on day FirstDay: each
\* earns 1 point and no bonus.
PriorStats(n) ==
    [ total_points |-> n, level |-> calculate_level(n).level,
      points_to_next_level |-> calculate_level(n).points_to_next,
      total_tasks_completed |-> n, current_streak_days |-> 1,
      longest_streak_days |-> 1, last_completion_date |-> FirstDay,
      daily_goal |-> DefaultDailyGoal, achievements_unlocked |-> 0 ]

PriorActivity(n) ==
    [ d \in Days |-> IF d = FirstDay
                     THEN ActivityRow(n, n, n >= DefaultDailyGoal)
                     ELSE NoRow ]

\* The threads that can run apply_completion_scoring on the shared
\* connection, and a thread running no call
Workers == {1, 2}
IdleCall == [ pc |-> "idle" ]

\* What every initial state shares: the day after FirstDay, the seeded
\* achievement rows all locked, no goal, nothing called yet.
InitCommon ==
    /\ today = FirstDay + 1
    /\ achievements = [ n \in AchievementNames |->
                          IF n \in SeededNames THEN "locked" ELSE "absent" ]
    /\ goals = {}
    /\ next_goal_id = 1
    /\ penalty_runs = 0
    /\ last = [ op |-> "init" ]
    /\ calls = [ w \in Workers |-> IdleCall ]

\* A fresh installation: empty user_stats, daily_activity and todos tables.
InitFresh ==
    /\ InitCommon
    /\ user_stats = << >>
    /\ daily_activity = [ d \in Days |-> NoRow ]
    /\ todos = [ id \in TodoIds |-> NoRow ]

\* The todos table with no row, or with one pending todo that was due the
\* day before (create_todo, then update_todo with a due date).
InitTodos ==
    \E overdue \in BOOLEAN :
        todos = [ id \in TodoIds |->
                    IF overdue /\ id = 1
                    THEN [ NewTodo EXCEPT !.due_date = FirstDay ]
                    ELSE NoRow ]

\* A fresh installation, with or without an overdue todo.
Init ==
    /\ InitCommon
    /\ user_stats = << >>
    /\ daily_activity = [ d \in Days |-> NoRow ]
    /\ InitTodos

\* A fresh installation, or one that scored PriorCompletions completions the
\* day before and never checked achievements; with or without an overdue
\* todo.
InitVeteran ==
    /\ InitCommon
    /\ \E n \in {0, PriorCompletions} :
          /\ user_stats = IF n = 0 THEN << >> ELSE << PriorStats(n) >>
          /\ daily_activity = IF n = 0 THEN [ d \in Days |-> NoRow ]
                              ELSE PriorActivity(n)
    /\ InitTodos

\* ------------------------------------------------------------------ guards
\* Completions scored since the initial state stay below MaxCompletions, and
\* streaks at or below MaxStreak.
CompletionsLeft(us) ==
    LET n == CurrentOrDefault(us).total_tasks_completed IN
    \/ n < MaxCompletions
    \/ n >= PriorCompletions /\ n < PriorCompletions + MaxCompletions

StreakInBound(us, completion_date) ==
    NewStreak(CurrentOrDefault(us), completion_date) <= MaxStreak

\* ----------------------------------------------------------------- actions

\* The calendar moves to the next day.
AdvanceDay ==
    /\ today < MaxDay
    /\ today' = today + 1
    /\ last' = [ op |-> "advance_day" ]
    /\ UNCHANGED << user_stats, daily_activity, achievements, todos, goals,
                    next_goal_id, penalty_runs, calls >>

\* TodoRepository.create_todo
CreateTodo ==
    /\ \E id \in TodoIds :
          /\ ~todos[id].present
          /\ \A j \in TodoIds : j < id => todos[j].present
          /\ todos' = [ todos EXCEPT ![id] = NewTodo ]
          /\ last' = [ op |-> "create_todo", todo_id |-> id ]
    /\ UNCHANGED << today, user_stats, daily_activity, achievements, goals,
                    next_goal_id, penalty_runs, calls >>

\* TodoRepository.update_todo on a pending todo
UpdateTodo ==
    /\ \E id \in TodoIds, updates \in TodoUpdates :
          /\ todos[id].present
          /\ todos[id].status = "pending"
          /\ todos' = [ todos EXCEPT ![id] = updates @@ todos[id] ]
          /\ todos'[id] # todos[id]
          /\ last' = [ op |-> "update_todo", todo_id |-> id ]
    /\ UNCHANGED << today, user_stats, daily_activity, achievements, goals,
                    next_goal_id, penalty_runs, calls >>

\* The Todo object get_by_id builds from a row: SELECT * FROM todos joins no
\* category, so todo.category is None.
TodoObject(row) ==
    [ final_size |-> row.final_size, category |-> "None",
      due_date |-> row.due_date ]

\* The early return of complete_todo without the test for a completed todo
NothingToCompleteIgnoresStatus(td, todo_id) ==
    \/ todo_id \notin TodoIds
    \/ ~td[todo_id].present

\* complete_todo finds nothing to do: no such row, or already completed
NothingToComplete(td, todo_id) ==
    \/ todo_id \notin TodoIds
    \/ ~td[todo_id].present
    \/ td[todo_id].status = "completed"

\* The UPDATE todos statement of complete_todo
CompletedRow(row, result, now) ==
    [ status |-> "completed", completed_at |-> now,
      base_points |-> result.base_points,
      bonus_points |-> result.bonus_points,
      total_points_earned |-> result.total_points ] @@ row

\* TodoRepository.complete_todo(todo_id), no statement failing
CompleteTodo ==
    /\ \E todo_id \in 1..(MaxTodos + 1) :
          IF NothingToComplete(todos, todo_id)
          THEN /\ last' = [ op |-> "complete_todo", todo_id |-> todo_id,
                            returned |-> "None", fault |-> "none" ]
               /\ UNCHANGED << user_stats, daily_activity, todos >>
          ELSE LET s == apply_completion_scoring(user_stats, daily_activity,
                            TodoObject(todos[todo_id]), today, today)
               IN /\ CompletionsLeft(user_stats)
                  /\ StreakInBound(user_stats, today)
                  /\ user_stats' = s.us_points
                  /\ daily_activity' = s.da_done
                  /\ todos' = [ todos EXCEPT ![todo_id] =
                                  CompletedRow(@, s.result, today) ]
                  /\ last' = [ op |-> "complete_todo", todo_id |-> todo_id,
                               returned |-> "todo", fault |-> "none",
                               result |-> s.result ]
    /\ UNCHANGED << today, achievements, goals, next_goal_id,
                    penalty_runs, calls >>

\* The writes of apply_completion_scoring at which conn.execute can raise
FaultPoints == {"update_streak", "update_stats", "update_daily_activity"}

\* The user_stats table when the statement `failing` raises: the statements
\* before it are committed one by one (no transaction is opened), the failing
\* one and those after it write nothing.
StatsWhenFailing(s, failing) ==
    CASE failing = "update_streak" -> s.us_init
      [] failing = "update_stats" -> s.us_streak
      [] failing = "update_daily_activity" -> s.us_points

\* TodoRepository.complete_todo(todo_id) with one write of the scoring step
\* raising: the exception leaves apply_completion_scoring, complete_todo
\* wraps it in "Database error while completing todo" and raises again, the
\* UPDATE todos statement is never reached.
CompleteTodoFails ==
    /\ \E todo_id \in TodoIds, failing \in FaultPoints :
          /\ ~NothingToComplete(todos, todo_id)
          /\ CompletionsLeft(user_stats)
          /\ StreakInBound(user_stats, today)
          /\ LET s == apply_completion_scoring(user_stats, daily_activity,
                            TodoObject(todos[todo_id]), today, today)
             IN user_stats' = StatsWhenFailing(s, failing)
          /\ last' = [ op |-> "complete_todo", todo_id |-> todo_id,
                       returned |-> "raised", fault |-> failing ]
    /\ UNCHANGED << today, daily_activity, achievements, todos, goals,
                    next_goal_id, penalty_runs, calls >>

\* ScoringService.apply_completion_scoring(todo, completion_date) for a Todo
\* object and a date among `dates`
ScoreCompletion(dates) ==
    /\ CompletionsLeft(user_stats)
    /\ \E todo \in SampleTodos, completion_date \in dates :
          LET s == apply_completion_scoring(user_stats, daily_activity, todo,
                                            completion_date, today)
          IN /\ StreakInBound(user_stats, completion_date)
             /\ user_stats' = s.us_points
             /\ daily_activity' = s.da_done
             /\ last' = [ op |-> "apply_completion_scoring",
                          completion_date |-> completion_date,
                          last_completion |->
                              CurrentOrDefault(user_stats).last_completion_date,
                          result |-> s.result ]
    /\ UNCHANGED << today, achievements, todos, goals, next_goal_id,
                    penalty_runs, calls >>

\* apply_completion_scoring(todo, completion_date) with any date
ApplyCompletionScoring == ScoreCompletion(Days)

\* apply_completion_scoring(todo): completion_date defaults to date.today()
ApplyCompletionScoringToday == ScoreCompletion({today})

\* ScoringService.update_streak(completion_date)
UpdateStreak ==
    /\ \E completion_date \in Days :
          /\ StreakInBound(user_stats, completion_date)
          /\ user_stats' = update_streak(user_stats, completion_date)
          /\ last' = [ op |-> "update_streak",
                       completion_date |-> completion_date,
                       last_completion |->
                           CurrentOrDefault(user_stats).last_completion_date,
                       returned |-> NewStreak(CurrentOrDefault(user_stats),
                                              completion_date) ]
    /\ UNCHANGED << today, daily_activity, achievements, todos, goals,
                    next_goal_id, penalty_runs, calls >>

\* get_current_stats() followed by check_and_unlock_achievements(stats), as
\* the callers do
CheckAndUnlock ==
    /\ LET snap == SubSeq(user_stats, 1, Min(1, Len(user_stats)))
           r == check_and_unlock_achievements(snap, achievements, user_stats,
                                              daily_activity, today)
       IN /\ achievements' = r.ach
          /\ user_stats' = r.us
          /\ last' = [ op |-> "check_and_unlock_achievements",
                       snapshot |-> snap, fresh |-> TRUE,
                       newly_unlocked |-> r.newly_unlocked ]
    /\ UNCHANGED << today, daily_activity, todos, goals, next_goal_id,
                    penalty_runs, calls >>

\* get_current_stats() followed by check_and_unlock_achievements(stats), one
\* store operation of the check raising
CheckAndUnlockFails ==
    /\ \E stmt \in AchievementFaultPoints, skip \in 0..MaxSkipped :
          LET snap == SubSeq(user_stats, 1, Min(1, Len(user_stats)))
              failing == [ stmt |-> stmt, skip |-> skip ]
              r == check_and_unlock_failing(snap, achievements, user_stats,
                                            daily_activity, today, failing)
          IN /\ r.error
             /\ achievements' = r.ach
             /\ user_stats' = r.us
             /\ last' = [ op |-> "check_and_unlock_achievements",
                          snapshot |-> snap, fresh |-> TRUE,
                          failing |-> failing,
                          raised |-> r.raised,
                          newly_unlocked |-> r.newly_unlocked ]
    /\ UNCHANGED << today, daily_activity, todos, goals, next_goal_id,
                    penalty_runs, calls >>

\* check_and_unlock_achievements called again with the same stats object,
\* nothing else having run in between
CheckAgain ==
    /\ last.op = "check_and_unlock_achievements"
    /\ LET r == check_and_unlock_achievements(last.snapshot, achievements,
                                              user_stats, daily_activity, today)
       IN /\ achievements' = r.ach
          /\ user_stats' = r.us
          /\ last' = [ op |-> "check_and_unlock_achievements",
                       snapshot |-> last.snapshot, fresh |-> FALSE,
                       newly_unlocked |-> r.newly_unlocked ]
    /\ UNCHANGED << today, daily_activity, todos, goals, next_goal_id,
                    penalty_runs, calls >>

\* ScoringService.apply_overdue_penalties
ApplyOverduePenalties ==
    /\ penalty_runs < MaxPenaltyRuns
    /\ penalty_runs' = penalty_runs + 1
    /\ LET r == apply_overdue_penalties(todos, user_stats, daily_activity,
                                        today)
       IN /\ user_stats' = r.us
          /\ daily_activity' = r.da
          /\ last' = [ op |-> "apply_overdue_penalties",
                       returned |-> r.total_penalty ]
    /\ UNCHANGED << today, achievements, todos, goals, next_goal_id, calls >>

\* ----------------------------------------------------------- pure calls
\* The total_points values calculate_level is called with: every value up
\* to MaxPoints, and the values around each threshold
PointSamples ==
    (0..MaxPoints) \cup
    UNION { { level_thresholds[i] - 1, level_thresholds[i],
              level_thresholds[i] + 1 } \ { -1 } :
            i \in DOMAIN level_thresholds }

\* ScoringService.calculate_level(total_points)
CalculateLevel ==
    /\ \E total_points \in PointSamples :
          last' = [ op |-> "calculate_level", total_points |-> total_points,
                    returned |-> calculate_level(total_points) ]
    /\ UNCHANGED << today, user_stats, daily_activity, achievements, todos,
                    goals, next_goal_id, penalty_runs, calls >>

\* The Todo objects calculate_completion_points is called with: every size
\* ("None" for a missing one, "unknown" for a value outside TaskSize), with
\* and without a bonus category, without due date, due yesterday, due today
RichTodos ==
    { [ final_size |-> s, category |-> c, due_date |-> d ] :
        s \in {"small", "medium", "large", "None", "unknown"},
        c \in {"None", "Work", "Finance", "Health", "Personal"},
        d \in {NoDate, FirstDay, FirstDay + 1} }

\* The streaks the stored stats start with: around each multiplier threshold
StreakSamples == {0, 1, 2, 3, 6, 7, 13, 14, 29, 30, 59, 60, 99, 100}

\* The user_stats row that s consecutive days with one completion of a small,
\* uncategorised task each leave, the last one on FirstDay: 1 point a day
\* (the streak bonus of a small task is 0 below a streak of 100, and one
\* task a day never meets the daily goal of 3).
StreakStats(s) ==
    [ total_points |-> s, level |-> calculate_level(s).level,
      points_to_next_level |-> calculate_level(s).points_to_next,
      total_tasks_completed |-> s, current_streak_days |-> s,
      longest_streak_days |-> s, last_completion_date |-> FirstDay,
      daily_goal |-> DefaultDailyGoal, achievements_unlocked |-> 0 ]

\* A store holding such a streak, or a fresh one
InitStreak ==
    /\ InitCommon
    /\ \E s \in StreakSamples :
          /\ user_stats = IF s = 0 THEN << >> ELSE << StreakStats(s) >>
          /\ daily_activity =
                [ d \in Days |-> IF s > 0 /\ d = FirstDay
                                 THEN ActivityRow(1, 1, FALSE) ELSE NoRow ]
    /\ todos = [ id \in TodoIds |-> NoRow ]

\* What a scoring call read before it wrote anything
ReadBefore(us, da, now) ==
    [ present |-> HasStats(us),
      streak_days |-> CurrentOrDefault(us).current_streak_days,
      daily_goal |-> CurrentOrDefault(us).daily_goal,
      tasks_today |-> IF da[now].present THEN da[now].tasks_completed ELSE 0,
      goal_met_today |-> da[now].present /\ da[now].daily_goal_met ]

\* ScoringService.calculate_completion_points(todo)
CalculateCompletionPoints ==
    /\ \E todo \in RichTodos :
          last' = [ op |-> "calculate_completion_points", todo |-> todo,
                    read |-> ReadBefore(user_stats, daily_activity, today),
                    returned |-> calculate_completion_points(user_stats,
                                     daily_activity, todo, today) ]
    /\ user_stats' = EnsureStats(user_stats)
    /\ UNCHANGED << today, daily_activity, achievements, todos, goals,
                    next_goal_id, penalty_runs, calls >>

\* apply_completion_scoring(todo) today, until the daily goal is met
ScoreToday ==
    /\ ~(daily_activity[today].present /\ daily_activity[today].daily_goal_met)
    /\ \E todo \in SampleTodos :
          LET s == apply_completion_scoring(user_stats, daily_activity, todo,
                                            today, today)
          IN /\ user_stats' = s.us_points
             /\ daily_activity' = s.da_done
             /\ last' = [ op |-> "apply_completion_scoring", todo |-> todo,
                          completion_date |-> today,
                          last_completion |->
                              CurrentOrDefault(user_stats).last_completion_date,
                          read |-> ReadBefore(user_stats, daily_activity,
                                              today),
                          result |-> s.result ]
    /\ UNCHANGED << today, achievements, todos, goals, next_goal_id,
                    penalty_runs, calls >>

\* apply_completion_scoring(todo, completion_date) for any date, on a store
\* that has scored fewer than MaxScored completions
ScoreAnyDate ==
    /\ CurrentOrDefault(user_stats).total_tasks_completed < MaxScored
    /\ \E todo \in SampleTodos, completion_date \in Days :
          LET s == apply_completion_scoring(user_stats, daily_activity, todo,
                                            completion_date, today)
          IN /\ user_stats' = s.us_points
             /\ daily_activity' = s.da_done
             /\ last' = [ op |-> "apply_completion_scoring", todo |-> todo,
                          completion_date |-> completion_date,
                          scored_on |-> today,
                          last_completion |->
                              CurrentOrDefault(user_stats).last_completion_date,
                          read |-> ReadBefore(user_stats, daily_activity,
                                              today),
                          result |-> s.result ]
    /\ UNCHANGED << today, achievements, todos, goals, next_goal_id,
                    penalty_runs, calls >>

\* ------------------------------------------------------ interleaved scoring
\* apply_completion_scoring run by thread w on the shared connection, one
\* step per call it makes.  No lock or transaction is held between the
\* steps.  calculate_completion_points, update_streak and
\* _update_daily_activity are each taken as one step; the read of the stats
\* (line 167) and the write computed from it (line 181) are separate steps.

\* The write of line 181 done as an increment of the stored values
WriteStatsFromStore(us, current_stats, total_points, new_streak, completion_date) ==
    LET stored == get_current_stats(us)
        new_total_points == stored.total_points + total_points
        lvl == calculate_level(new_total_points)
    IN update_stats(us,
           [ total_points |-> new_total_points,
             total_tasks_completed |-> stored.total_tasks_completed + 1,
             level |-> lvl.level,
             points_to_next_level |-> lvl.points_to_next,
             current_streak_days |-> new_streak,
             last_completion_date |-> completion_date ])

\* Lines 171-190: the new values computed from the current_stats object read
\* before, and written by update_stats
WriteStats(us, current_stats, total_points, new_streak, completion_date) ==
    LET new_total_points == current_stats.total_points + total_points
        lvl == calculate_level(new_total_points)
    IN update_stats(us,
           [ total_points |-> new_total_points,
             total_tasks_completed |-> current_stats.total_tasks_completed + 1,
             level |-> lvl.level,
             points_to_next_level |-> lvl.points_to_next,
             current_streak_days |-> new_streak,
             last_completion_date |-> completion_date ])

\* Line 161: calculate_completion_points(todo), completion_date = today
BeginScoring(w) ==
    /\ calls[w].pc = "idle"
    /\ \E todo \in SampleTodos :
          calls' = [ calls EXCEPT ![w] =
                       [ pc |-> "update_streak", completion_date |-> today,
                         points |-> calculate_completion_points(user_stats,
                                        daily_activity, todo, today) ] ]
    /\ user_stats' = EnsureStats(user_stats)
    /\ last' = [ op |-> "calculate_completion_points", worker |-> w ]
    /\ UNCHANGED << today, daily_activity, achievements, todos, goals,
                    next_goal_id, penalty_runs >>

\* Line 164: new_streak = self.update_streak(completion_date)
ScoringUpdateStreak(w) ==
    /\ calls[w].pc = "update_streak"
    /\ user_stats' = update_streak(user_stats, calls[w].completion_date)
    /\ calls' = [ calls EXCEPT ![w] =
                    [ pc |-> "read_stats",
                      new_streak |-> NewStreak(CurrentOrDefault(user_stats),
                                               calls[w].completion_date) ]
                    @@ calls[w] ]
    /\ last' = [ op |-> "update_streak", worker |-> w,
                 completion_date |-> calls[w].completion_date,
                 last_completion |->
                     CurrentOrDefault(user_stats).last_completion_date,
                 returned |-> NewStreak(CurrentOrDefault(user_stats),
                                        calls[w].completion_date) ]
    /\ UNCHANGED << today, daily_activity, achievements, todos, goals,
                    next_goal_id, penalty_runs >>

\* Lines 167-169: current_stats = get_current_stats()
ScoringReadStats(w) ==
    /\ calls[w].pc = "read_stats"
    /\ user_stats' = EnsureStats(user_stats)
    /\ calls' = [ calls EXCEPT ![w] =
                    [ pc |-> "write_stats",
                      current_stats |-> CurrentOrDefault(user_stats) ]
                    @@ calls[w] ]
    /\ last' = [ op |-> "get_current_stats", worker |-> w ]
    /\ UNCHANGED << today, daily_activity, achievements, todos, goals,
                    next_goal_id, penalty_runs >>

\* Lines 171-190: update_stats with the values computed from current_stats
ScoringWriteStats(w) ==
    /\ calls[w].pc = "write_stats"
    /\ user_stats' = WriteStats(user_stats, calls[w].current_stats,
                                calls[w].points.total_points,
                                calls[w].new_streak,
                                calls[w].completion_date)
    /\ calls' = [ calls EXCEPT ![w] =
                    [ pc |-> "update_daily_activity" ] @@ calls[w] ]
    /\ last' = [ op |-> "update_stats", worker |-> w ]
    /\ UNCHANGED << today, daily_activity, achievements, todos, goals,
                    next_goal_id, penalty_runs >>

\* Line 193: _update_daily_activity(completion_date, total_points); the
\* call returns
ScoringUpdateDailyActivity(w) ==
    /\ calls[w].pc = "update_daily_activity"
    /\ daily_activity' = _update_daily_activity(user_stats, daily_activity,
                             calls[w].completion_date,
                             calls[w].points.total_points)
    /\ calls' = [ calls EXCEPT ![w] = [ pc |-> "done" ] @@ calls[w] ]
    /\ last' = [ op |-> "_update_daily_activity", worker |-> w ]
    /\ UNCHANGED << today, user_stats, achievements, todos, goals,
                    next_goal_id, penalty_runs >>

\* -------------------------------------------------------------------- goals
\* A row of the goals table is
\*   [ id, goal_type, category, target_value, current_value, period_start,
\*     period_end, is_active ]

\* GoalType and the GoalCategory values goals are created with
GoalTypes == {"weekly", "monthly"}
GoalCategories == {"tasks_completed", "streak_days"}
GoalTargets == {2}

\* The categories whose value is a count of todos or of streak days
CountedGoalCategories ==
    {"tasks_completed", "points_earned", "streak_days"}

\* date.weekday(): 0 for Monday; day 1 is a Monday
weekday(d) == (d - 1) % DaysInWeek

\* Goal._calculate_period_start: the Monday of this week, or the first of
\* the month (all days lie in January, whose day of month is the day number)
_calculate_period_start(goal_type, now) ==
    IF goal_type = "weekly" THEN now - weekday(now) ELSE now - (now - 1)

\* Goal._calculate_period_end: the Sunday of that week, or the day before the
\* first of the next month
_calculate_period_end(goal_type, period_start) ==
    IF goal_type = "weekly" THEN period_start + (DaysInWeek - 1)
    ELSE period_start + DaysInJanuary - 1

\* Goal.is_current_period
is_current_period(goal, now) ==
    goal.period_start <= now /\ now <= goal.period_end

\* Goal.progress_percentage without the cap at 100
ProgressUncapped(goal) ==
    IF goal.target_value = 0 THEN [ num |-> 0, den |-> 1 ]
    ELSE [ num |-> goal.current_value * 100, den |-> goal.target_value ]

\* Goal.progress_percentage: 0.0 for a target of 0, else
\* min(100.0, (current_value / target_value) * 100), kept as the fraction
\* num / den
progress_percentage(goal) ==
    IF goal.target_value = 0 THEN [ num |-> 0, den |-> 1 ]
    ELSE IF goal.current_value * 100 >= 100 * goal.target_value
         THEN [ num |-> 100, den |-> 1 ]
         ELSE [ num |-> goal.current_value * 100, den |-> goal.target_value ]

\* Goal.is_completed
is_completed(goal) == goal.current_value >= goal.target_value

\* Goal.days_remaining
days_remaining(goal, now) ==
    IF now > goal.period_end THEN 0 ELSE (goal.period_end - now) + 1

\* _deactivate_existing_goals: an UPDATE that deletes neither row
DeactivateNothing(gs, goal_type, category) == gs

\* _deactivate_existing_goals: UPDATE goals SET is_active = FALSE WHERE
\* goal_type = ? AND category = ? AND is_active = TRUE
_deactivate_existing_goals(gs, goal_type, category) ==
    { IF g.goal_type = goal_type /\ g.category = category /\ g.is_active
      THEN [ g EXCEPT !.is_active = FALSE ]
      ELSE g : g \in gs }

\* GoalService.create_goal: deactivate, then insert the new row with the id
\* the sequence gives
create_goal(gs, id, goal_type, category, target_value, now) ==
    LET period_start == _calculate_period_start(goal_type, now) IN
    _deactivate_existing_goals(gs, goal_type, category) \cup
      { [ id |-> id, goal_type |-> goal_type, category |-> category,
          target_value |-> target_value, current_value |-> 0,
          period_start |-> period_start,
          period_end |-> _calculate_period_end(goal_type, period_start),
          is_active |-> TRUE ] }

\* get_current_goals: the active goals whose period holds today
get_current_goals(gs, now) ==
    { g \in gs : g.is_active /\ is_current_period(g, now) }

\* _get_period_task_completions: COUNT(*) of the completed todos whose
\* completed_at lies in the goal's period
_get_period_task_completions(goal, td) ==
    Cardinality({ id \in TodoIds :
        /\ td[id].present
        /\ td[id].status = "completed"
        /\ td[id].completed_at >= goal.period_start
        /\ td[id].completed_at <= goal.period_end })

\* _calculate_productivity_score
_calculate_productivity_score(stats) ==
    Min(100, Min(40, stats.total_tasks_completed * 2)
             + Min(30, stats.current_streak_days * 3)
             + Min(30, stats.level * 5))

\* _calculate_goal_progress taking the streak for every category
ProgressFromStreak(goal, stats, td) == stats.current_streak_days

\* _calculate_goal_progress
_calculate_goal_progress(goal, stats, td) ==
    CASE goal.category = "tasks_completed" ->
             _get_period_task_completions(goal, td)
      [] goal.category = "points_earned" ->
             _get_period_task_completions(goal, td) * 10
      [] goal.category = "streak_days" -> stats.current_streak_days
      [] goal.category = "productivity_score" ->
             _calculate_productivity_score(stats)
      [] OTHER -> 0

\* update_goal_progress writing the computed value to every stored goal
UpdateEveryGoal(gs, stats, td, now) ==
    { [ g EXCEPT !.current_value = _calculate_goal_progress(g, stats, td) ]
      : g \in gs }

\* update_goal_progress(user_stats): every current goal gets its computed
\* value (the UPDATE is skipped when the value is the same)
update_goal_progress(gs, stats, td, now) ==
    { IF g \in get_current_goals(gs, now)
      THEN [ g EXCEPT !.current_value = _calculate_goal_progress(g, stats, td) ]
      ELSE g : g \in gs }

\* cleanup_expired_goals also deactivating the goals whose period ends today
CleanupThroughToday(gs, now) ==
    { IF g.period_end <= now /\ g.is_active
      THEN [ g EXCEPT !.is_active = FALSE ]
      ELSE g : g \in gs }

\* cleanup_expired_goals: UPDATE goals SET is_active = FALSE
\* WHERE period_end < today AND is_active = TRUE
cleanup_expired_goals(gs, now) ==
    { IF g.period_end < now /\ g.is_active
      THEN [ g EXCEPT !.is_active = FALSE ]
      ELSE g : g \in gs }

\* delete_goal: DELETE FROM goals WHERE id = ?
delete_goal(gs, goal_id) == { g \in gs : g.id # goal_id }

\* GoalService.create_goal(goal_type, category, target_value)
CreateGoal ==
    /\ next_goal_id <= MaxGoals
    /\ \E goal_type \in GoalTypes, category \in GoalCategories,
          target_value \in GoalTargets :
          /\ goals' = create_goal(goals, next_goal_id, goal_type, category,
                                  target_value, today)
          /\ last' = [ op |-> "create_goal", id |-> next_goal_id,
                       goal_type |-> goal_type, category |-> category,
                       replaced |-> { g.id : g \in
                           { h \in goals : /\ h.goal_type = goal_type
                                           /\ h.category = category
                                           /\ h.is_active } } ]
    /\ next_goal_id' = next_goal_id + 1
    /\ UNCHANGED << today, user_stats, daily_activity, achievements, todos,
                    penalty_runs, calls >>

\* GoalService.create_goal with one of the counted categories
CreateCountedGoal ==
    /\ next_goal_id <= MaxGoals
    /\ \E goal_type \in GoalTypes, category \in CountedGoalCategories,
          target_value \in GoalTargets :
          /\ goals' = create_goal(goals, next_goal_id, goal_type, category,
                                  target_value, today)
          /\ last' = [ op |-> "create_goal", id |-> next_goal_id,
                       goal_type |-> goal_type, category |-> category ]
    /\ next_goal_id' = next_goal_id + 1
    /\ UNCHANGED << today, user_stats, daily_activity, achievements, todos,
                    penalty_runs, calls >>

\* The goals whose properties are read: any target up to MaxTarget, any value
\* from 0 to beyond the target, a period ending on any of the days
GoalSamples ==
    [ id : {1}, goal_type : {"weekly"}, category : {"tasks_completed"},
      target_value : 0..MaxTarget, current_value : 0..(MaxTarget + 2),
      period_start : {FirstDay}, period_end : Days, is_active : {TRUE} ]

\* Reading is_completed, progress_percentage and days_remaining of a goal
ReadGoalProperties ==
    /\ \E goal \in GoalSamples :
          last' = [ op |-> "goal_properties", goal |-> goal,
                    is_completed |-> is_completed(goal),
                    progress_percentage |-> progress_percentage(goal),
                    days_remaining |-> days_remaining(goal, today) ]
    /\ UNCHANGED << today, user_stats, daily_activity, achievements, todos,
                    goals, next_goal_id, penalty_runs, calls >>

\* _get_average_weekly_completions: the completed todos of the last four
\* weeks, divided by 4
_get_average_weekly_completions(td, now) ==
    Cardinality({ id \in DOMAIN td :
        /\ td[id].present
        /\ td[id].status = "completed"
        /\ td[id].completed_at >= now - FourWeeks }) \div 4

\* _get_average_monthly_completions: those of the last 90 days, divided by 3
_get_average_monthly_completions(td, now) ==
    Cardinality({ id \in DOMAIN td :
        /\ td[id].present
        /\ td[id].status = "completed"
        /\ td[id].completed_at >= now - NinetyDays }) \div 3

\* The suggestions get_goal_suggestions appends, in the order of the code:
\* weekly tasks, monthly tasks, streak, points.  int(avg * 1.15),
\* int(avg * 1.2) and int(points * 1.1) are the truncated products.
SuggestionCandidates(td, stats, now) ==
    LET avg_weekly_completions == _get_average_weekly_completions(td, now)
        avg_monthly_completions == _get_average_monthly_completions(td, now)
        current_streak == stats.current_streak_days
        suggested_weekly == (avg_weekly_completions * 115) \div 100
        suggested_monthly == (avg_monthly_completions * 12) \div 10
        streak_target == Max(current_streak + 3, WeeklyStreakMax)
        avg_points_weekly ==
            IF avg_weekly_completions > 0
            THEN avg_weekly_completions * PointsPerTask
            ELSE DefaultWeeklyPoints
    IN (IF avg_weekly_completions > 0
        THEN << [ type |-> "weekly", category |-> "tasks_completed",
                  target_value |->
                      Max(suggested_weekly, avg_weekly_completions + 1) ] >>
        ELSE << >>)
       \o
       (IF avg_monthly_completions > 0
        THEN << [ type |-> "monthly", category |-> "tasks_completed",
                  target_value |->
                      Max(suggested_monthly, avg_monthly_completions + 5) ] >>
        ELSE << >>)
       \o
       (IF current_streak > 0
        THEN << [ type |-> "weekly", category |-> "streak_days",
                  target_value |-> Min(streak_target, WeeklyStreakMax) ] >>
        ELSE << >>)
       \o
       << [ type |-> "weekly", category |-> "points_earned",
            target_value |-> (avg_points_weekly * 11) \div 10 ] >>

\* get_goal_suggestions(user_stats): the candidates whose (type, category)
\* is not that of a goal of get_current_goals(), cut to the first three
get_goal_suggestions(gs, td, stats, now) ==
    LET existing_combinations ==
            { << g.goal_type, g.category >> : g \in get_current_goals(gs, now) }
        keep(s) == << s.type, s.category >> \notin existing_combinations
        filtered_suggestions ==
            SelectSeq(SuggestionCandidates(td, stats, now), keep)
    IN SubSeq(filtered_suggestions, 1,
              Min(MaxSuggestions, Len(filtered_suggestions)))

\* A todos row completed on day d: a small task, 1 point
PriorCompletedTodo(d) ==
    [ present |-> TRUE, status |-> "completed", final_size |-> "small",
      due_date |-> NoDate, completed_at |-> d, base_points |-> 1,
      bonus_points |-> 0, total_points_earned |-> 1 ]

\* A store after s consecutive days with one todo completed on each, the
\* last one on FirstDay (s = 0: a fresh store)
InitHistory ==
    /\ InitCommon
    /\ \E s \in 0..MaxHistory :
          /\ user_stats = IF s = 0 THEN << >> ELSE << StreakStats(s) >>
          /\ daily_activity =
                [ d \in Days |-> IF s > 0 /\ d = FirstDay
                                 THEN ActivityRow(1, 1, FALSE) ELSE NoRow ]
          /\ todos = [ id \in 1..s |-> PriorCompletedTodo(FirstDay - (s - id)) ]

\* GoalService.get_goal_suggestions(user_stats), the caller passing the
\* stored stats, or the default object when none is stored
GetGoalSuggestions ==
    /\ last' = [ op |-> "get_goal_suggestions",
                 current_streak |->
                     CurrentOrDefault(user_stats).current_streak_days,
                 candidates |->
                     SuggestionCandidates(todos,
                         CurrentOrDefault(user_stats), today),
                 returned |->
                     get_goal_suggestions(goals, todos,
                         CurrentOrDefault(user_stats), today) ]
    /\ UNCHANGED << today, user_stats, daily_activity, achievements, todos,
                    goals, next_goal_id, penalty_runs, calls >>

\* The stats after PriorCompletions completions of small tasks scored by the
\* engine, the last of them on FirstDay and the others the day before: a
\* streak of two days
TwoDayStreakStats ==
    [ PriorStats(PriorCompletions) EXCEPT !.current_streak_days = 2,
                                          !.longest_streak_days = 2 ]

\* A fresh store, or the store with the streak of two days; the todos
\* created and pending
InitPendingTodos ==
    /\ InitCommon
    /\ \E veteran \in BOOLEAN :
          /\ user_stats = IF veteran THEN << TwoDayStreakStats >> ELSE << >>
          /\ daily_activity =
                [ d \in Days |-> IF veteran /\ d = FirstDay
                                 THEN ActivityRow(1, 1, FALSE) ELSE NoRow ]
    /\ todos = [ id \in TodoIds |-> NewTodo ]

\* GoalService.update_goal_progress(user_stats), the caller passing the
\* stored stats, or the default object when none is stored
UpdateGoalProgress ==
    /\ goals' = update_goal_progress(goals, CurrentOrDefault(user_stats),
                                     todos, today)
    /\ last' = [ op |-> "update_goal_progress",
                 completed_before |->
                     { g.id : g \in { h \in get_current_goals(goals, today) :
                                         is_completed(h) } } ]
    /\ UNCHANGED << today, user_stats, daily_activity, achievements, todos,
                    next_goal_id, penalty_runs, calls >>

\* GoalService.cleanup_expired_goals
CleanupExpiredGoals ==
    /\ goals' = cleanup_expired_goals(goals, today)
    /\ last' = [ op |-> "cleanup_expired_goals",
                 expired |-> { g.id : g \in
                     { h \in goals : h.is_active /\ h.period_end < today } } ]
    /\ UNCHANGED << today, user_stats, daily_activity, achievements, todos,
                    next_goal_id, penalty_runs, calls >>

\* GoalService.delete_goal(goal_id) for the id of a stored goal
DeleteGoal ==
    /\ \E g \in goals :
          /\ goals' = delete_goal(goals, g.id)
          /\ last' = [ op |-> "delete_goal", id |-> g.id ]
    /\ UNCHANGED << today, user_stats, daily_activity, achievements, todos,
                    next_goal_id, penalty_runs, calls >>

\* -------------------------------------------------------------- behaviours

\* The scoring engine, called directly with any completion date
Next ==
    \/ AdvanceDay
    \/ ApplyCompletionScoring
    \/ UpdateStreak
    \/ ApplyOverduePenalties

Spec == Init /\ [][Next]_vars

\* The scoring engine scoring completions as of today, and the achievement
\* engine
AchievementNext ==
    \/ AdvanceDay
    \/ ApplyCompletionScoringToday
    \/ CheckAndUnlock
    \/ CheckAgain
    \/ ApplyOverduePenalties

AchievementSpec == InitVeteran /\ [][AchievementNext]_vars

\* The achievement engine on a store whose operations can raise
AchievementFaultNext ==
    \/ ApplyCompletionScoringToday
    \/ CheckAndUnlock
    \/ CheckAndUnlockFails

AchievementFaultSpec == InitVeteran /\ [][AchievementFaultNext]_vars

\* The todo commands of the CLI
TodoNext ==
    \/ AdvanceDay
    \/ CreateTodo
    \/ UpdateTodo
    \/ CompleteTodo
    \/ ApplyOverduePenalties

TodoSpec == InitFresh /\ [][TodoNext]_vars

\* The todo commands of the CLI, any write of the scoring step able to fail
FaultNext ==
    \/ AdvanceDay
    \/ CreateTodo
    \/ UpdateTodo
    \/ CompleteTodo
    \/ CompleteTodoFails
    \/ ApplyOverduePenalties

FaultSpec == InitFresh /\ [][FaultNext]_vars

\* calculate_level called with any sampled total
LevelNext == CalculateLevel

LevelSpec == InitFresh /\ [][LevelNext]_vars

\* Points calculated for any todo, at any sampled streak, on a day with up
\* to DefaultDailyGoal completions
PointsNext ==
    \/ CalculateCompletionPoints
    \/ ScoreToday

PointsSpec == InitStreak /\ [][PointsNext]_vars

\* Completions scored for any date, day after day
DailyGoalNext ==
    \/ AdvanceDay
    \/ ScoreAnyDate

DailyGoalSpec == InitFresh /\ [][DailyGoalNext]_vars

\* Two threads each running apply_completion_scoring once
ConcurrentNext ==
    \/ AdvanceDay
    \/ \E w \in Workers : BeginScoring(w)
    \/ \E w \in Workers : ScoringUpdateStreak(w)
    \/ \E w \in Workers : ScoringReadStats(w)
    \/ \E w \in Workers : ScoringWriteStats(w)
    \/ \E w \in Workers : ScoringUpdateDailyActivity(w)

ConcurrentSpec == InitFresh /\ [][ConcurrentNext]_vars

\* The goal service, beside todos being created and completed
GoalNext ==
    \/ AdvanceDay
    \/ CreateTodo
    \/ CompleteTodo
    \/ CreateGoal
    \/ UpdateGoalProgress
    \/ CleanupExpiredGoals
    \/ DeleteGoal

GoalSpec == InitFresh /\ [][GoalNext]_vars

\* Goals created and suggestions asked for on a store with a history
SuggestionNext ==
    \/ AdvanceDay
    \/ CreateCountedGoal
    \/ CleanupExpiredGoals
    \/ GetGoalSuggestions

SuggestionSpec == InitHistory /\ [][SuggestionNext]_vars

\* Goals followed while todos are completed day by day
StabilityNext ==
    \/ AdvanceDay
    \/ CompleteTodo
    \/ CreateCountedGoal
    \/ UpdateGoalProgress

StabilitySpec == InitPendingTodos /\ [][StabilityNext]_vars

\* The properties of a goal object, read on any day
GoalPropertiesNext ==
    \/ AdvanceDay
    \/ ReadGoalProperties

GoalPropertiesSpec == InitFresh /\ [][GoalPropertiesNext]_vars

\* Goals of the counted categories, their progress recomputed as todos are completed
ProgressNext ==
    \/ AdvanceDay
    \/ CreateTodo
    \/ CompleteTodo
    \/ CreateCountedGoal
    \/ UpdateGoalProgress

ProgressSpec == InitFresh /\ [][ProgressNext]_vars

\* ------------------------------------------------------------------ claims

\* The call that `last` records updated the streak
StreakCall(l) == l.op \in {"update_streak", "apply_completion_scoring"}

\* C5: in every reachable state the stored current_streak_days is at most
\* the stored longest_streak_days, for any sequence of completions with any
\* completion dates, starting from the lazily created record.
C5_CurrentAtMostLongest ==
    \A i \in DOMAIN user_stats :
        user_stats[i].current_streak_days <= user_stats[i].longest_streak_days

\* C5 witness: a completion scored for a date before the last completion
\* date, the streak standing at the longest one, of two days or more.
C5_Witness ==
    /\ last.op = "apply_completion_scoring"
    /\ last.completion_date < last.last_completion
    /\ HasStats(user_stats)
    /\ get_current_stats(user_stats).current_streak_days >= 2
    /\ get_current_stats(user_stats).current_streak_days
           = get_current_stats(user_stats).longest_streak_days

\* C7: update_streak(d) with d not before last_completion_date sets the
\* streak to 1 when there was no last completion date, leaves it when d is
\* that date, adds exactly 1 when d is the day after, resets it to 1 when d
\* is more than a day after; it stores d as last_completion_date and returns
\* the stored streak.  The same holds of the streak update inside
\* apply_completion_scoring.
C7_FourCaseRule ==
    [][ StreakCall(last') =>
          LET before == CurrentOrDefault(user_stats)
              after == get_current_stats(user_stats')
              prev == before.last_completion_date
              d == last'.completion_date
          IN /\ HasStats(user_stats')
             /\ prev = NoDate => after.current_streak_days = 1
             /\ (prev # NoDate /\ d = prev) =>
                    after.current_streak_days = before.current_streak_days
             /\ (prev # NoDate /\ d = prev + 1) =>
                    after.current_streak_days = before.current_streak_days + 1
             /\ (prev # NoDate /\ d > prev + 1) =>
                    after.current_streak_days = 1
             /\ after.last_completion_date = d
             /\ last'.op = "update_streak" =>
                    last'.returned = after.current_streak_days
      ]_vars

\* C7 witness: update_streak on the day after the last completion date
\* returned 3, the third consecutive day.
C7_Witness ==
    /\ last.op = "update_streak"
    /\ last.last_completion # NoDate
    /\ last.completion_date = last.last_completion + 1
    /\ last.returned = 3
    /\ get_current_stats(user_stats).current_streak_days = 3

\* C8: a completion dated strictly before last_completion_date neither
\* resets nor increments the streak: current_streak_days is the same before
\* and after the call.
C8_BackdatedKeepsStreak ==
    [][ ( /\ StreakCall(last')
          /\ last'.last_completion # NoDate
          /\ last'.completion_date < last'.last_completion ) =>
          /\ HasStats(user_stats)
          /\ get_current_stats(user_stats').current_streak_days
                 = get_current_stats(user_stats).current_streak_days
      ]_vars

\* C8 witness: update_streak ran for a date before the last completion date
\* while the streak stood at 2 or more.
C8_Witness ==
    /\ last.op = "update_streak"
    /\ last.last_completion # NoDate
    /\ last.completion_date < last.last_completion
    /\ last.returned >= 2

\* C9: longest_streak_days never decreases: after every step its stored
\* value is at least the value before the step (0 while no record exists).
C9_LongestNeverDecreases ==
    [][ /\ HasStats(user_stats) => HasStats(user_stats')
        /\ HasStats(user_stats') =>
             get_current_stats(user_stats').longest_streak_days
                 >= CurrentOrDefault(user_stats).longest_streak_days
      ]_vars

\* C9 witness: a completion after a gap reset the streak to 1 while the
\* longest streak stayed at 2 or more.
C9_Witness ==
    /\ StreakCall(last)
    /\ last.last_completion # NoDate
    /\ last.completion_date > last.last_completion + 1
    /\ get_current_stats(user_stats).current_streak_days = 1
    /\ get_current_stats(user_stats).longest_streak_days >= 2

\* C1: in every reachable state the stored level is the level the threshold
\* table gives for the stored total_points, whatever completions,
\* achievement checks and penalty runs came before.
C1_LevelMatchesPoints ==
    \A i \in DOMAIN user_stats :
        user_stats[i].level = calculate_level(user_stats[i].total_points).level

\* C2: one call of check_and_unlock_achievements that unlocks the list L adds
\* the sum of the bonus_points of L to the stored total_points and Len(L) to
\* the stored achievements_unlocked, whatever the length of L.
C2_AwardsAddUp ==
    [][ ( /\ last'.op = "check_and_unlock_achievements"
          /\ last'.fresh
          /\ HasStats(user_stats) ) =>
          LET before == get_current_stats(user_stats)
              after == get_current_stats(user_stats')
              L == last'.newly_unlocked
          IN /\ after.total_points = before.total_points + SumBonus(L)
             /\ after.achievements_unlocked
                    = before.achievements_unlocked + Len(L)
      ]_vars

\* C6: check_and_unlock_achievements run a second time with the same stats
\* object, nothing else having run in between, returns the empty list and
\* changes neither an achievement row nor the stored user stats.
C6_SecondCheckIsNoOp ==
    [][ ( /\ last'.op = "check_and_unlock_achievements"
          /\ ~last'.fresh ) =>
          /\ last'.newly_unlocked = << >>
          /\ achievements' = achievements
          /\ user_stats' = user_stats
      ]_vars

\* C6 witness: the second call has run with a stats object for which the
\* first call unlocked two achievements or more.
C6_Witness ==
    /\ last.op = "check_and_unlock_achievements"
    /\ ~last.fresh
    /\ last.snapshot # << >>
    /\ Cardinality({ n \in AchievementNames :
                        achievements[n] = "unlocked" }) >= 2

\* C3: when a write of the scoring step (streak, points or daily activity)
\* fails while complete_todo runs on an existing todo that is not completed,
\* the todo still ends in status completed.
C3_FaultStillCompletes ==
    ( /\ last.op = "complete_todo"
      /\ last.fault # "none" ) =>
        todos[last.todo_id].status = "completed"

\* C4: when one write of a completion fails, none of the completion's
\* updates remain: the user stats (those of the default record when none was
\* stored) and the daily activity are what they were before the call.
C4_FailedCompletionLeavesNothing ==
    [][ ( /\ last'.op = "complete_todo"
          /\ last'.fault # "none" ) =>
          /\ CurrentOrDefault(user_stats') = CurrentOrDefault(user_stats)
          /\ daily_activity' = daily_activity
      ]_vars

\* The active goals of one (type, category) pair
ActiveGoals(gs, goal_type, category) ==
    { g \in gs : /\ g.goal_type = goal_type
                 /\ g.category = category
                 /\ g.is_active }

\* C10: after any sequence of create_goal, update_goal_progress,
\* cleanup_expired_goals and delete_goal calls at most one active goal is
\* stored per (type, category) pair; right after create_goal the new goal is
\* the only active one of its pair, and the goal that was active for the
\* pair before is still stored, with is_active false.
C10_OneActiveGoalPerPair ==
    /\ \A goal_type \in GoalTypes, category \in GoalCategories :
          Cardinality(ActiveGoals(goals, goal_type, category)) <= 1
    /\ \A g \in goals, h \in goals : g.id = h.id => g = h
    /\ last.op = "create_goal" =>
          /\ { g.id : g \in ActiveGoals(goals, last.goal_type, last.category) }
                 = { last.id }
          /\ \A id \in last.replaced :
                \E g \in goals : g.id = id /\ ~g.is_active

\* C10 witness: create_goal has just replaced the active goal of its pair.
C10_Witness ==
    /\ last.op = "create_goal"
    /\ last.replaced # {}
    /\ \E g \in goals : g.id \in last.replaced /\ ~g.is_active
    /\ \E g \in goals : g.id = last.id /\ g.is_active

\* The ids of the completed todos
CompletedTodos(td) ==
    { id \in TodoIds : td[id].present /\ td[id].status = "completed" }

RECURSIVE SumOver(_, _)
SumOver(f, S) ==
    IF S = {} THEN 0
    ELSE LET x == CHOOSE y \in S : TRUE IN f[x] + SumOver(f, S \ {x})

\* C11: complete_todo on an id without todo, or on a completed todo, returns
\* None and leaves user stats, daily activity and every todo as they were;
\* so each todo is counted at most once: the completed-task counter and the
\* daily activity counts equal the number of completed todos, and the daily
\* activity points are the points the completed todos earned.
C11_NothingToCompleteIsNoOp ==
    [][ /\ ( /\ last'.op = "complete_todo"
             /\ \/ last'.todo_id \notin TodoIds
                \/ ~todos[last'.todo_id].present
                \/ todos[last'.todo_id].status = "completed" ) =>
               /\ last'.returned = "None"
               /\ user_stats' = user_stats
               /\ daily_activity' = daily_activity
               /\ todos' = todos
        /\ CurrentOrDefault(user_stats').total_tasks_completed
               = Cardinality(CompletedTodos(todos'))
        /\ SumOver([ d \in Days |-> IF daily_activity'[d].present
                                    THEN daily_activity'[d].tasks_completed
                                    ELSE 0 ], Days)
               = Cardinality(CompletedTodos(todos'))
        /\ SumOver([ d \in Days |-> IF daily_activity'[d].present
                                    THEN daily_activity'[d].total_points_earned
                                    ELSE 0 ], Days)
               = SumOver([ id \in TodoIds |-> todos'[id].total_points_earned ],
                         CompletedTodos(todos'))
      ]_vars

\* C11 witness: complete_todo returned None for a todo completed before,
\* the completed-task counter standing at one.
C11_Witness ==
    /\ last.op = "complete_todo"
    /\ last.returned = "None"
    /\ last.todo_id \in TodoIds
    /\ todos[last.todo_id].present
    /\ todos[last.todo_id].status = "completed"
    /\ HasStats(user_stats)
    /\ get_current_stats(user_stats).total_tasks_completed = 1

\* C12: interleaved apply_completion_scoring calls write total_points and
\* total_tasks_completed computed from their own earlier read of the stats:
\* the write stores (value read) + 1 and (points read) + (own points),
\* whatever another call has stored since; so when both calls have finished
\* the counter has grown by 1 or by 2.
C12_WritesFromOwnRead ==
    [][ /\ last'.op = "update_stats" =>
             LET c == calls[last'.worker]
                 after == get_current_stats(user_stats')
             IN /\ after.total_tasks_completed
                       = c.current_stats.total_tasks_completed + 1
                /\ after.total_points
                       = c.current_stats.total_points + c.points.total_points
        /\ (\A w \in Workers : calls'[w].pc = "done") =>
             get_current_stats(user_stats').total_tasks_completed \in {1, 2}
      ]_vars

\* C12 witness: both calls have finished, the counter has grown by 1 and
\* the points by one completion's points only.
C12_Witness ==
    /\ \A w \in Workers : calls[w].pc = "done"
    /\ \A w \in Workers : calls[w].points.total_points > 0
    /\ get_current_stats(user_stats).total_tasks_completed = 1
    /\ \E w \in Workers :
          get_current_stats(user_stats).total_points
              = calls[w].points.total_points

\* The catalog entries whose requirement type is not tracked
SpecialNames ==
    { extended_achievement_definitions[i].name :
        i \in { k \in DOMAIN extended_achievement_definitions :
                  extended_achievement_definitions[k].requirement_type \in
                      { "special_late_completion", "special_early_completion",
                        "weekend_completions" } } }

\* C13: an unlocked achievement stays unlocked on every step, and the
\* achievements with a special requirement type (late-night, early, weekend
\* completion) are unlocked in no reachable state.
C13_UnlockIsMonotonic ==
    [][ /\ \A n \in AchievementNames :
              achievements[n] = "unlocked" => achievements'[n] = "unlocked"
        /\ \A n \in SpecialNames : achievements'[n] # "unlocked"
      ]_vars

\* C13 witness: a completion was scored on a weekend day after two
\* achievements or more had been unlocked.
C13_Witness ==
    /\ last.op = "apply_completion_scoring"
    /\ weekday(today) >= 5
    /\ SpecialNames # {}
    /\ Cardinality({ n \in AchievementNames :
                        achievements[n] = "unlocked" }) >= 2

\* The 1-based index of the greatest threshold at or below p
GreatestThresholdIndex(p) ==
    CHOOSE i \in DOMAIN level_thresholds :
        /\ level_thresholds[i] <= p
        /\ \A j \in DOMAIN level_thresholds :
              level_thresholds[j] <= p => j <= i

\* C14: for every p >= 0 calculate_level(p) returns the 1-based index of the
\* greatest threshold <= p, with points_to_next_level the next threshold
\* minus p, or 0 from the last threshold on; the level is non-decreasing in
\* p and points_to_next_level is never negative.
C14_LevelIsGreatestThreshold ==
    last.op = "calculate_level" =>
        LET p == last.total_points
            r == last.returned
            idx == GreatestThresholdIndex(p)
        IN /\ r.level = idx
           /\ r.points_to_next =
                  IF idx < Len(level_thresholds)
                  THEN level_thresholds[idx + 1] - p ELSE 0
           /\ r.points_to_next >= 0
           /\ r.points_for_current = level_thresholds[idx]
           /\ \A q \in PointSamples :
                  q <= p => calculate_level(q).level <= r.level

\* C14 witness: calculate_level was called with a total above the last
\* threshold and returned the last level with nothing left to the next.
C14_Witness ==
    /\ last.op = "calculate_level"
    /\ last.total_points > level_thresholds[Len(level_thresholds)]
    /\ last.returned.level = Len(level_thresholds)
    /\ last.returned.points_to_next = 0

\* The base points of the size table, 3 for any other size
BaseOf(size) ==
    CASE size = "small" -> 1
      [] size = "medium" -> 3
      [] size = "large" -> 5
      [] OTHER -> 3

\* C15: every scoring result has total_points = base_points + bonus_points,
\* base_points being 1, 3, 5 for small, medium, large and 3 for any other
\* size, and bonus_points the streak bonus plus the daily-goal bonus plus 1
\* for a category named Work, Finance or Health plus 1 for a due date before
\* today; a fresh user completing a small task without category and due date
\* gets base 1, bonus 0, total 1, new streak 1, level 1.
C15_PointsDecomposition ==
    [][ /\ last'.op = "calculate_completion_points" =>
             LET todo == last'.todo
                 r == last'.returned
                 base == BaseOf(todo.final_size)
                 streak_bonus == StreakBonus(base, last'.read.streak_days)
                 daily_goal_bonus ==
                     IF /\ last'.read.tasks_today + 1 >= last'.read.daily_goal
                        /\ ~last'.read.goal_met_today
                     THEN base \div 2 ELSE 0
                 category_bonus ==
                     IF todo.category \in {"Work", "Finance", "Health"}
                     THEN 1 ELSE 0
                 overdue_bonus ==
                     IF todo.due_date # NoDate /\ todo.due_date < today
                     THEN 1 ELSE 0
             IN /\ r.base_points = base
                /\ r.bonus_points = streak_bonus + daily_goal_bonus
                                      + category_bonus + overdue_bonus
                /\ r.total_points = r.base_points + r.bonus_points
        /\ last'.op = "apply_completion_scoring" =>
             /\ last'.result.total_points
                    = last'.result.base_points + last'.result.bonus_points
             /\ ( /\ ~last'.read.present
                  /\ last'.todo = [ final_size |-> "small",
                                    category |-> "None",
                                    due_date |-> NoDate ] ) =>
                    /\ last'.result.base_points = 1
                    /\ last'.result.bonus_points = 0
                    /\ last'.result.total_points = 1
                    /\ last'.result.new_streak = 1
                    /\ last'.result.new_level = 1
                    /\ get_current_stats(user_stats').level = 1
      ]_vars

\* C15 witness: points were calculated for a todo of unrecognized size in a
\* bonus category, due before today, as the third completion of the day, at
\* a streak that earns a streak bonus.
C15_Witness ==
    /\ last.op = "calculate_completion_points"
    /\ last.todo.final_size = "unknown"
    /\ last.todo.category = "Finance"
    /\ last.todo.due_date # NoDate
    /\ last.todo.due_date < today
    /\ last.read.tasks_today = 2
    /\ last.read.streak_days >= 14
    /\ last.returned.bonus_points = 4

\* The multiplier table of the streak bonus, as hundredths above 1.00
NominalExcess(streak_days) ==
    CASE streak_days >= 100 -> 100
      [] streak_days >= 60 -> 80
      [] streak_days >= 30 -> 60
      [] streak_days >= 14 -> 40
      [] streak_days >= 7 -> 25
      [] streak_days >= 3 -> 10
      [] OTHER -> 0

\* C16: the streak bonus of a completion is floor(base x (m - 1)), m being
\* the multiplier of the highest threshold at or below the streak held before
\* the completion (1.0 below 3): a completion that earns no other bonus has
\* bonus_points = floor(base x (m - 1)); a large task at streak 14 earns 2.
C16_StreakBonusIsFloor ==
    ( /\ last.op = "calculate_completion_points"
      /\ last.todo.category = "None"
      /\ last.todo.due_date = NoDate
      /\ last.read.tasks_today + 1 < last.read.daily_goal ) =>
        last.returned.bonus_points
            = (BaseOf(last.todo.final_size)
                 * NominalExcess(last.read.streak_days)) \div 100

\* The scoring call that `l` records added a daily-goal bonus above 0
GotDailyGoalBonus(l) ==
    /\ l.op = "apply_completion_scoring"
    /\ l.read.tasks_today + 1 >= l.read.daily_goal
    /\ ~l.read.goal_met_today
    /\ BaseOf(l.todo.final_size) \div 2 > 0

\* C17: the daily-goal bonus goes to the completion that brings the day's
\* count to daily_goal while the day's goal is not yet marked met, so at most
\* one completion per calendar day receives it, whatever the completion
\* dates: of two completions scored one after the other on the same day for
\* the same completion date, at most one receives the bonus.
C17_OneDailyGoalBonusPerDay ==
    [][ ( /\ GotDailyGoalBonus(last)
          /\ last'.op = "apply_completion_scoring"
          /\ last'.scored_on = last.scored_on
          /\ last'.completion_date = last.completion_date ) =>
          ~GotDailyGoalBonus(last')
      ]_vars

\* What a day's activity row counts, 0 when the day has no row
TasksOn(da, d) == IF da[d].present THEN da[d].tasks_completed ELSE 0
PointsOn(da, d) == IF da[d].present THEN da[d].total_points_earned ELSE 0

\* One scored completion on date d: the stored totals and the row of d grow by
\* the completion, the rows of the other days stay
CompletionAddsUp ==
    last'.op = "apply_completion_scoring" =>
        LET d == last'.completion_date
            before == CurrentOrDefault(user_stats)
            after == get_current_stats(user_stats')
            pts == last'.result.total_points
        IN /\ HasStats(user_stats')
           /\ after.total_points = before.total_points + pts
           /\ after.total_tasks_completed = before.total_tasks_completed + 1
           /\ daily_activity'[d].present
           /\ TasksOn(daily_activity', d) = TasksOn(daily_activity, d) + 1
           /\ PointsOn(daily_activity', d) = PointsOn(daily_activity, d) + pts
           /\ \A e \in Days \ {d} : daily_activity'[e] = daily_activity[e]

\* The stored totals are the sums over the activity rows
CountsAllCompletions ==
    LET st == CurrentOrDefault(user_stats) IN
    /\ st.total_tasks_completed =
          SumOver([ d \in Days |-> TasksOn(daily_activity, d) ], Days)
    /\ st.total_points =
          SumOver([ d \in Days |-> PointsOn(daily_activity, d) ], Days)

\* C18: a scored completion on date d adds the result's total_points to the
\* stored total_points and 1 to total_tasks_completed, adds 1 to the tasks
\* and the result's total_points to the points of the activity row of d
\* (creating the row on the first completion of d), and leaves the rows of
\* the other days alone; so after n completions scored one after the other
\* on an empty store total_tasks_completed is n, the number the activity
\* rows count together, and total_points is the sum of the rows' points.
C18_CompletionAddsUp ==
    [][CompletionAddsUp]_vars /\ []CountsAllCompletions

\* A completion was just scored onto a day that already had a completion
\* worth points, while another day has a row of its own.
C18_Witness ==
    /\ last.op = "apply_completion_scoring"
    /\ TasksOn(daily_activity, last.completion_date) >= 2
    /\ PointsOn(daily_activity, last.completion_date)
          > last.result.total_points
    /\ \E e \in Days \ {last.completion_date} : daily_activity[e].present
    /\ get_current_stats(user_stats).total_tasks_completed >= 3

\* The table holds at most one row, and one row once a completion was scored
SingletonStats ==
    /\ Len(user_stats) <= 1
    /\ last.op = "apply_completion_scoring" => Len(user_stats) = 1

\* A step inserts a row only into the empty table, and the row is the default
\* one under what the inserting operation then wrote
StatsCreatedLazily ==
    /\ HasStats(user_stats) => Len(user_stats') = Len(user_stats)
    /\ ~HasStats(user_stats) /\ HasStats(user_stats') =>
          LET row == get_current_stats(user_stats')
              d == last'.completion_date
          IN \/ /\ last'.op = "update_streak"
                /\ row = [ default_stats EXCEPT
                             !.current_streak_days = 1,
                             !.longest_streak_days = 1,
                             !.last_completion_date = d ]
             \/ /\ last'.op = "apply_completion_scoring"
                /\ last'.result.total_points < level_thresholds[2]
                /\ row = [ default_stats EXCEPT
                             !.total_points = last'.result.total_points,
                             !.points_to_next_level =
                                 level_thresholds[2]
                                     - last'.result.total_points,
                             !.total_tasks_completed = 1,
                             !.current_streak_days = 1,
                             !.longest_streak_days = 1,
                             !.last_completion_date = d ]

\* C19: the user stats are a singleton: from an empty store the table never
\* holds more than one row and holds exactly one after the first completion;
\* the row is inserted only when the table is empty, as total_points 0,
\* level 1, points_to_next_level 100, streaks 0, no last completion date and
\* daily_goal 3, on which the inserting operation then writes its own fields.
C19_StatsAreSingleton ==
    [][StatsCreatedLazily]_vars /\ []SingletonStats

\* The first completion was scored on the empty table and left the one row
\* it created.
C19_Witness ==
    /\ Len(user_stats) = 1
    /\ last.op = "apply_completion_scoring"
    /\ last.last_completion = NoDate
    /\ get_current_stats(user_stats).total_tasks_completed = 1
    /\ get_current_stats(user_stats).daily_goal = DefaultDailyGoal

\* C20: cleanup_expired_goals sets is_active to false on exactly the active
\* goals whose period_end is before today; it deletes no goal and adds none,
\* and every goal whose period_end is today or later, and every field other
\* than is_active, stays as it was.
C20_CleanupDeactivatesExpired ==
    [][ last'.op = "cleanup_expired_goals" =>
          /\ Cardinality(goals') = Cardinality(goals)
          /\ \A g \in goals :
                \E h \in goals' :
                   /\ h.id = g.id
                   /\ h = [ g EXCEPT !.is_active =
                                g.is_active /\ g.period_end >= today ]
      ]_vars

\* cleanup_expired_goals just deactivated a goal whose period was over and
\* kept active a goal whose period runs on.
C20_Witness ==
    /\ last.op = "cleanup_expired_goals"
    /\ \E g \in goals : /\ g.id \in last.expired
                        /\ ~g.is_active
                        /\ g.period_end < today
    /\ \E g \in goals : g.is_active /\ g.period_end >= today

\* The todos completed within the period of goal g
CompletedInPeriod(g, td) ==
    { id \in CompletedTodos(td) :
        td[id].completed_at >= g.period_start
        /\ td[id].completed_at <= g.period_end }

\* The goals update_goal_progress looks at: active, period containing today
IsCurrentGoal(g, now) ==
    g.is_active /\ g.period_start <= now /\ now <= g.period_end

\* What a recomputation gives for the three counted categories
RecomputedValue(g, td, us) ==
    CASE g.category = "tasks_completed" ->
            Cardinality(CompletedInPeriod(g, td))
      [] g.category = "points_earned" ->
            Cardinality(CompletedInPeriod(g, td)) * 10
      [] g.category = "streak_days" ->
            CurrentOrDefault(us).current_streak_days

\* C21: update_goal_progress recomputes current_value only for the active
\* goals whose period contains today: the number of todos completed within
\* the period for tasks_completed, ten times that number for points_earned,
\* the stored current_streak_days for streak_days; an inactive goal and a
\* goal whose period does not contain today keep their current_value, no
\* goal is added or removed, no other field changes, and user_stats stays.
C21_UpdateRecomputesCurrentGoals ==
    [][ last'.op = "update_goal_progress" =>
          /\ user_stats' = user_stats
          /\ Cardinality(goals') = Cardinality(goals)
          /\ \A g \in goals :
                \E h \in goals' :
                   /\ h.id = g.id
                   /\ [ h EXCEPT !.current_value = 0 ]
                         = [ g EXCEPT !.current_value = 0 ]
                   /\ ~IsCurrentGoal(g, today) =>
                         h.current_value = g.current_value
                   /\ IsCurrentGoal(g, today) =>
                         h.current_value = RecomputedValue(g, todos, user_stats)
      ]_vars

\* update_goal_progress just ran: a current goal holds a recomputed value
\* above 0, while a goal that is inactive or out of its period holds a value
\* a recomputation would have changed.
C21_Witness ==
    /\ last.op = "update_goal_progress"
    /\ \E g \in goals :
          /\ IsCurrentGoal(g, today)
          /\ g.current_value > 0
          /\ g.current_value = RecomputedValue(g, todos, user_stats)
    /\ \E g \in goals :
          /\ ~IsCurrentGoal(g, today)
          /\ g.current_value # RecomputedValue(g, todos, user_stats)

\* C22: for a goal with target_value >= 1, is_completed holds exactly when
\* current_value >= target_value; progress_percentage is
\* min(100, 100 x current_value / target_value), which is 100 exactly when
\* the goal is completed; days_remaining is max(0, period_end - today + 1).
C22_GoalProperties ==
    last.op = "goal_properties" /\ last.goal.target_value >= 1 =>
        LET g == last.goal
            p == last.progress_percentage
        IN /\ last.is_completed = (g.current_value >= g.target_value)
           /\ p.num * g.target_value
                 = p.den * Min(100 * g.target_value, 100 * g.current_value)
           /\ (p.num = 100 * p.den) = last.is_completed
           /\ last.days_remaining = Max(0, g.period_end - today + 1)

\* The properties of a goal beyond its target, in the last day of its period
\* or after it, were read.
C22_Witness ==
    /\ last.op = "goal_properties"
    /\ last.goal.target_value >= 1
    /\ last.goal.current_value > last.goal.target_value
    /\ last.goal.period_end <= today
    /\ last.progress_percentage = [ num |-> 100, den |-> 1 ]

\* s is a subsequence of t that keeps the order of t
RECURSIVE IsOrderedPart(_, _)
IsOrderedPart(s, t) ==
    IF s = << >> THEN TRUE
    ELSE IF t = << >> THEN FALSE
    ELSE IF Head(s) = Head(t) THEN IsOrderedPart(Tail(s), Tail(t))
    ELSE IsOrderedPart(s, Tail(t))

\* C23: get_goal_suggestions returns at most 3 suggestions, none with the
\* (type, category) pair of a stored active goal, in the order they were
\* generated (weekly tasks, monthly tasks, streak, points).
C23_SuggestionsAvoidActiveGoals ==
    last.op = "get_goal_suggestions" =>
        /\ Len(last.returned) <= MaxSuggestions
        /\ IsOrderedPart(last.returned, last.candidates)
        /\ \A i \in 1..Len(last.returned) :
              ActiveGoals(goals, last.returned[i].type,
                          last.returned[i].category) = {}

\* C24: the streak goal get_goal_suggestions suggests has the target
\* min(current_streak + 3, 7) whenever the current streak is at least 1, and
\* no streak goal is suggested when the current streak is 0.
C24_StreakSuggestionTarget ==
    last.op = "get_goal_suggestions" =>
        \A i \in 1..Len(last.returned) :
            last.returned[i].category = "streak_days" =>
                /\ last.current_streak >= 1
                /\ last.returned[i].target_value
                      = Min(last.current_streak + 3, WeeklyStreakMax)

\* A check that was handed None: nothing returned, nothing written
NullStatsIsNoOp ==
    ( /\ last'.op = "check_and_unlock_achievements"
      /\ last'.snapshot = << >> ) =>
        /\ last'.newly_unlocked = << >>
        /\ achievements' = achievements
        /\ user_stats' = user_stats

\* A check during which a store operation raised returned its list: empty
\* when no achievement was unlocked before the failure, and naming only
\* achievements this call unlocked
FailedCheckReturns ==
    ( /\ last.op = "check_and_unlock_achievements"
      /\ "failing" \in DOMAIN last ) =>
        /\ ~last.raised
        /\ \A i \in 1..Len(last.newly_unlocked) :
              achievements[last.newly_unlocked[i]] = "unlocked"
        /\ last.failing.stmt = "get_all_achievements" =>
              last.newly_unlocked = << >>

\* C25: check_and_unlock_achievements never lets an error out: handed no
\* stats it returns the empty list and writes nothing; when a store
\* operation raises during the check it still returns its list, which is
\* empty when the failure comes before any unlock.
C25_CheckNeverRaises ==
    [][NullStatsIsNoOp]_vars /\ []FailedCheckReturns

\* A check in which the bonus write raised returned the achievements it had
\* unlocked until then.
C25_Witness ==
    /\ last.op = "check_and_unlock_achievements"
    /\ "failing" \in DOMAIN last
    /\ last.failing.stmt = "update_stats"
    /\ Len(last.newly_unlocked) >= 2
    /\ ~last.raised

\* The stored total_points is not negative
TotalPointsNotNegative ==
    HasStats(user_stats) => get_current_stats(user_stats).total_points >= 0

\* The overdue todos of the store: due before today, not completed
OverdueNow(td, now) ==
    { id \in TodoIds : /\ td[id].present
                       /\ td[id].due_date # NoDate
                       /\ td[id].due_date < now
                       /\ td[id].status = "pending" }

\* What each kind of call does to total_points: a completion adds its
\* result's total_points, which is not negative; an achievement check leaves
\* at least the total of the stats it was given; apply_overdue_penalties
\* takes min(days_overdue, 5) for each overdue todo off a stored total and
\* stops at 0
PointsOnlyDropByPenalty ==
    LET before == CurrentOrDefault(user_stats).total_points
        after == CurrentOrDefault(user_stats').total_points
    IN /\ last'.op = "apply_completion_scoring" =>
             /\ last'.result.total_points >= 0
             /\ after = before + last'.result.total_points
       /\ last'.op = "check_and_unlock_achievements" /\ last'.snapshot # << >> =>
             after >= Min(before, last'.snapshot[1].total_points)
       /\ last'.op = "apply_overdue_penalties" =>
             LET due == [ id \in TodoIds |->
                           IF id \in OverdueNow(todos, today)
                           THEN Min(today - todos[id].due_date,
                                    MaxPenaltyPerTask)
                           ELSE 0 ]
             IN IF HasStats(user_stats)
                THEN /\ last'.returned = SumOver(due, TodoIds)
                     /\ after = Max(0, before - last'.returned)
                ELSE /\ last'.returned = 0
                     /\ user_stats' = user_stats

\* C26: total_points is never negative: a completion and an achievement
\* bonus add amounts that are not negative, and apply_overdue_penalties
\* deducts min(days_overdue, 5) for each overdue todo but holds the stored
\* total at 0.
C26_TotalPointsNeverNegative ==
    [][PointsOnlyDropByPenalty]_vars /\ []TotalPointsNotNegative

\* apply_overdue_penalties just deducted 2 points from a store that had
\* earned 1 point: the total is 0.
C26_Witness ==
    /\ last.op = "apply_overdue_penalties"
    /\ last.returned >= 2
    /\ HasStats(user_stats)
    /\ get_current_stats(user_stats).total_points = 0
    /\ get_current_stats(user_stats).total_tasks_completed = 1
    /\ get_current_stats(user_stats).achievements_unlocked = 0
    /\ SumOver([ d \in Days |-> PointsOn(daily_activity, d) ], Days) = 1

\* C27: last_completion_date never moves backward: after every update_streak
\* or apply_completion_scoring call, whatever its completion date, the
\* stored last_completion_date is not earlier than it was before the call.
C27_LastCompletionNeverMovesBack ==
    [][ StreakCall(last') =>
          get_current_stats(user_stats').last_completion_date
              >= CurrentOrDefault(user_stats).last_completion_date
      ]_vars

\* The calendar dates on which a completion was recorded
DatesWithCompletion(da) == { d \in Days : da[d].present }

\* C28: a streak counts calendar days: after any sequence of completions,
\* whatever their dates, current_streak_days is at most the number of
\* distinct dates on which a completion was recorded.
C28_StreakCountsDays ==
    CurrentOrDefault(user_stats).current_streak_days
        <= Cardinality(DatesWithCompletion(daily_activity))

\* Every activity row has daily_goal_met exactly when its tasks_completed
\* reached the stored daily_goal, and the result of the last scoring call
\* reports the flag of the row of its completion date
GoalMetMatchesCount ==
    LET daily_goal == CurrentOrDefault(user_stats).daily_goal IN
    /\ \A d \in Days :
          daily_activity[d].present =>
             ( daily_activity[d].daily_goal_met
                 = (daily_activity[d].tasks_completed >= daily_goal) )
    /\ last.op = "apply_completion_scoring" =>
          ( last.result.daily_goal_met
              = (TasksOn(daily_activity, last.completion_date) >= daily_goal) )

\* With daily_goal unchanged, a row does not go back from met to unmet
GoalMetNeverReverts ==
    CurrentOrDefault(user_stats').daily_goal
        = CurrentOrDefault(user_stats).daily_goal =>
    \A d \in Days :
        daily_activity[d].present /\ daily_activity[d].daily_goal_met =>
            daily_activity'[d].present /\ daily_activity'[d].daily_goal_met

\* C29: every activity row completion scoring writes has daily_goal_met
\* exactly when the day's tasks_completed is at least daily_goal (daily_goal
\* unchanged), so within a day the flag never goes back to false, and the
\* daily_goal_met of the scoring result is true exactly from the completion
\* that reaches daily_goal onward.
C29_GoalMetFollowsCount ==
    [][GoalMetNeverReverts]_vars /\ []GoalMetMatchesCount

\* A completion was scored on a date that had reached the daily goal before:
\* the row and the result still report the goal as met.
C29_Witness ==
    /\ last.op = "apply_completion_scoring"
    /\ TasksOn(daily_activity, last.completion_date) > DefaultDailyGoal
    /\ daily_activity[last.completion_date].daily_goal_met
    /\ last.result.daily_goal_met

\* Every current goal of one of the categories cs that was completed before
\* an update_goal_progress call is completed after it
StaysCompleted(cs) ==
    last'.op = "update_goal_progress" =>
        \A g \in goals :
            ( /\ g.category \in cs
              /\ g.is_active
              /\ is_current_period(g, today)
              /\ g.current_value >= g.target_value ) =>
                \A h \in goals' :
                    h.id = g.id => h.current_value >= h.target_value

\* C30, as stated: once an active goal satisfies
\* current_value >= target_value, it still satisfies it after every later
\* update_goal_progress call made while today is inside its period.
C30_CompletionIsStable ==
    [][StaysCompleted(CountedGoalCategories)]_vars

\* C30, amended: completion is stable for the goals of the categories
\* tasks_completed and points_earned, whose value counts the todos completed
\* within the period.
C30_CountedCompletionIsStable ==
    [][StaysCompleted({"tasks_completed", "points_earned"})]_vars

\* update_goal_progress just ran on a points_earned goal that was completed
\* before the call and has grown since: it is still completed.
C30_Witness ==
    /\ last.op = "update_goal_progress"
    /\ \E g \in goals :
          /\ g.id \in last.completed_before
          /\ g.category = "points_earned"
          /\ g.current_value >= 2 * PointsPerTask
          /\ g.current_value >= g.target_value

====
